---- MODULE Spec2Model ----
(***************************************************************************)
(* Model of scripts/sync_products.mjs (src/unnamed/part_002): the one-shot *)
(* pipeline that fetches the CSV feed, rebuilds products.json and          *)
(* archive.json, stages the /p page tree with its /og images and swaps the *)
(* staged tree into place.                                                 *)
(*                                                                         *)
(* Strings are sequences of atoms.  An atom is one character, except that  *)
(* the URL scheme prefixes "http://" and "https://" (in either case) are   *)
(* single atoms, so that the regular expression /^https?:\/\//i is a test  *)
(* on the first atom.                                                      *)
(***************************************************************************)
EXTENDS Integers, Sequences, FiniteSets, TLC

(* ------------------------------ bounds -------------------------------- *)
MaxRuns == 2
MaxRows == 2
MaxOgRows == 1
MaxCacheRuns == 3
MaxDedupRows == 3
MaxTextLen == 5
MaxCells == 3

(* ------------------------------ strings ------------------------------- *)
LowerChars == <<"a", "b", "c", "d", "e", "f", "g", "h", "i", "j", "k", "l", "m",
                "n", "o", "p", "q", "r", "s", "t", "u", "v", "w", "x", "y", "z",
                "http://", "https://">>
UpperChars == <<"A", "B", "C", "D", "E", "F", "G", "H", "I", "J", "K", "L", "M",
                "N", "O", "P", "Q", "R", "S", "T", "U", "V", "W", "X", "Y", "Z",
                "HTTP://", "HTTPS://">>
Digits == {"0", "1", "2", "3", "4", "5", "6", "7", "8", "9"}
Blank == " "

IndexIn(c, seq) ==
  IF \E i \in 1..Len(seq) : seq[i] = c
  THEN CHOOSE i \in 1..Len(seq) : seq[i] = c
  ELSE 0

toUpperCaseChar(c) ==
  IF IndexIn(c, LowerChars) > 0 THEN UpperChars[IndexIn(c, LowerChars)] ELSE c
toLowerCaseChar(c) ==
  IF IndexIn(c, UpperChars) > 0 THEN LowerChars[IndexIn(c, UpperChars)] ELSE c

toUpperCase(s) == [i \in 1..Len(s) |-> toUpperCaseChar(s[i])]
toLowerCase(s) == [i \in 1..Len(s) |-> toLowerCaseChar(s[i])]

\* String(s ?? "").trim()
norm(s) ==
  IF \A i \in 1..Len(s) : s[i] = Blank
  THEN <<>>
  ELSE LET first == CHOOSE i \in 1..Len(s) :
                      s[i] # Blank /\ \A j \in 1..(i - 1) : s[j] = Blank
           last  == CHOOSE i \in 1..Len(s) :
                      s[i] # Blank /\ \A j \in (i + 1)..Len(s) : s[j] = Blank
       IN  SubSeq(s, first, last)

upper(s) == toUpperCase(norm(s))
normalizeMarket(v) == upper(v)
normalizeAsin(v) == upper(v)

\* /^https?:\/\//i.test(norm(u))
isValidHttpUrl(u) ==
  LET s == norm(u)
  IN  Len(s) > 0 /\ toLowerCaseChar(s[1]) \in {"http://", "https://"}

normalizeUrl(v) ==
  LET s == norm(v)
  IN  IF s = <<>> THEN <<>>
      ELSE IF isValidHttpUrl(s) THEN s
      ELSE <<>>

\* norm(url).replace(/^http:\/\//i, "https://")
safeHttps(url) ==
  LET s == norm(url)
  IN  IF Len(s) > 0 /\ toLowerCaseChar(s[1]) = "http://"
      THEN <<"https://">> \o Tail(s)
      ELSE s

PublishedTokens ==
  { <<"1">>,
    <<"t", "r", "u", "e">>,
    <<"y", "e", "s">>,
    <<"o", "n">>,
    <<"a", "c", "t", "i", "v", "e">>,
    <<"e", "n", "a", "b", "l", "e", "d">>,
    <<"p", "u", "b", "l", "i", "s", "h">>,
    <<"p", "u", "b", "l", "i", "s", "h", "e", "d">>,
    <<"o", "n", "l", "i", "n", "e">> }

\* mutant: the status is compared as typed, without toLowerCase
isActiveStatusCaseSensitive(v) ==
  IF norm(v) = <<>> THEN TRUE ELSE norm(v) \in PublishedTokens

isActiveStatus(v) ==
  LET s == toLowerCase(norm(v))
  IN  IF s = <<>> THEN TRUE ELSE s \in PublishedTokens

isAllDigits(s) ==
  LET x == norm(s)
  IN  x # <<>> /\ \A i \in 1..Len(x) : x[i] \in Digits
isNonAmazonByAsin(asin) == isAllDigits(asin)

keyOfMA(market, asin) == upper(market) \o <<"|">> \o upper(asin)
keyOf(p) == keyOfMA(p.market, p.asin)

(* localeCompare on the normalized (trimmed, upper-cased) market and asin  *)
(* values: blank, then digits, then letters, compared atom by atom.        *)
CollationOrder == <<" ", "_", "|", "0", "1", "2", "3", "4", "5", "6", "7", "8", "9">>
                    \o UpperChars \o LowerChars
Rank(c) == IndexIn(c, CollationOrder)

RECURSIVE localeCompare(_, _)
localeCompare(a, b) ==
  IF a = <<>> /\ b = <<>> THEN 0
  ELSE IF a = <<>> THEN -1
  ELSE IF b = <<>> THEN 1
  ELSE IF Rank(Head(a)) < Rank(Head(b)) THEN -1
  ELSE IF Rank(Head(a)) > Rank(Head(b)) THEN 1
  ELSE localeCompare(Tail(a), Tail(b))

(* ------------------------------- maps ---------------------------------- *)
EmptyMap == [x \in {} |-> x]
MapSet(m, k, v) == [x \in (DOMAIN m) \cup {k} |-> IF x = k THEN v ELSE m[x]]
MapValues(m) == {m[k] : k \in DOMAIN m}

\* list.forEach((p) => map.set(keyOf(p), p)): a later entry replaces an earlier one
MapFromList(list) ==
  [k \in {keyOf(list[i]) : i \in 1..Len(list)} |->
     list[CHOOSE i \in 1..Len(list) :
            keyOf(list[i]) = k /\ \A j \in (i + 1)..Len(list) : keyOf(list[j]) # k]]

(* ------------------------------ parseCSV ------------------------------- *)
(* The text is a sequence of characters.  st is the state of the loop: the  *)
(* index i (from 1), field, row, rows, inQuotes, and the number of          *)
(* iterations made so far.                                                  *)
Quote == "\""
Comma == ","
CR == "\r"
LF == "\n"

\* text[i]: undefined past the end, which equals no character
CharAt(text, i) == IF i \in 1..Len(text) THEN <<text[i]>> ELSE <<>>

parseStart ==
  [i |-> 1, field |-> <<>>, row |-> <<>>, rows |-> <<>>, inQuotes |-> FALSE, steps |-> 0]

\* mutant: a quote inside a quoted field always ends it
quoteStepWithoutDoubling(text, st) ==
  IF text[st.i] = Quote
  THEN [st EXCEPT !.inQuotes = FALSE, !.i = @ + 1, !.steps = @ + 1]
  ELSE [st EXCEPT !.field = Append(@, text[st.i]), !.i = @ + 1, !.steps = @ + 1]

\* one iteration with inQuotes set
quoteStep(text, st) ==
  IF text[st.i] = Quote
  THEN IF CharAt(text, st.i + 1) = <<Quote>>
       THEN [st EXCEPT !.field = Append(@, Quote), !.i = @ + 2, !.steps = @ + 1]
       ELSE [st EXCEPT !.inQuotes = FALSE, !.i = @ + 1, !.steps = @ + 1]
  ELSE [st EXCEPT !.field = Append(@, text[st.i]), !.i = @ + 1, !.steps = @ + 1]

\* one iteration with inQuotes clear
plainStep(text, st) ==
  IF text[st.i] = Quote
  THEN [st EXCEPT !.inQuotes = TRUE, !.i = @ + 1, !.steps = @ + 1]
  ELSE IF text[st.i] = Comma
  THEN [st EXCEPT !.row = Append(@, st.field), !.field = <<>>, !.i = @ + 1,
                  !.steps = @ + 1]
  ELSE IF text[st.i] = CR
  THEN [st EXCEPT !.i = @ + 1, !.steps = @ + 1]
  ELSE IF text[st.i] = LF
  THEN [st EXCEPT !.rows = Append(@, Append(st.row, st.field)), !.row = <<>>,
                  !.field = <<>>, !.i = @ + 1, !.steps = @ + 1]
  ELSE [st EXCEPT !.field = Append(@, text[st.i]), !.i = @ + 1, !.steps = @ + 1]

\* while (i < text.length) { ... }
RECURSIVE parseLoop(_, _)
parseLoop(text, st) ==
  IF st.i > Len(text) THEN st
  ELSE IF st.inQuotes THEN parseLoop(text, quoteStep(text, st))
  ELSE parseLoop(text, plainStep(text, st))

\* mutant: what is left in field and row at the end of the text is dropped
parseEndWithoutFlush(st) == st.rows

\* if (field.length || row.length) { row.push(field); rows.push(row); } return rows
parseEnd(st) ==
  IF Len(st.field) > 0 \/ Len(st.row) > 0
  THEN Append(st.rows, Append(st.row, st.field))
  ELSE st.rows

parseCSV(text) ==
  [rows |-> parseEnd(parseLoop(text, parseStart)),
   steps |-> parseLoop(text, parseStart).steps]

\* r.some((c) => norm(c) !== "") on a row of cells
someCellNonBlank(r) == \E c \in 1..Len(r) : norm(r[c]) # <<>>

\* the texts of up to MaxTextLen characters
TextChars == {"a", Blank, Comma, Quote, CR, LF}
Texts == UNION {[1..n -> TextChars] : n \in 0..MaxTextLen}

(* ----------------------------- feed rows ------------------------------- *)
(* mapRow: a data row as the object of its trimmed cells.                  *)
mapRow(cells) ==
  [market    |-> norm(cells.market),
   asin      |-> norm(cells.asin),
   title     |-> norm(cells.title),
   keyword   |-> norm(cells.keyword),
   store     |-> norm(cells.store),
   remark    |-> norm(cells.remark),
   link      |-> norm(cells.link),
   image_url |-> norm(cells.image_url),
   status    |-> norm(cells.status)]

\* r.some((c) => norm(c) !== "")
IsNonBlankRow(cells) ==
  \/ norm(cells.market) # <<>>
  \/ norm(cells.asin) # <<>>
  \/ norm(cells.title) # <<>>
  \/ norm(cells.keyword) # <<>>
  \/ norm(cells.store) # <<>>
  \/ norm(cells.remark) # <<>>
  \/ norm(cells.link) # <<>>
  \/ norm(cells.image_url) # <<>>
  \/ norm(cells.status) # <<>>

\* rows.slice(1).filter(...)
dataRowsOf(rows) == SelectSeq(rows, IsNonBlankRow)

(* ------------------------- dedup comparator ---------------------------- *)
\* mutant: the row-number test is turned around, the later of two equal rows wins
pickBetterLaterOnTie(existing, incoming) ==
  LET exLink == isValidHttpUrl(existing.link)
      inLink == isValidHttpUrl(incoming.link)
      exImg == norm(existing.image_url) # <<>>
      inImg == norm(incoming.image_url) # <<>>
      exTitleLen == Len(norm(existing.title))
      inTitleLen == Len(norm(incoming.title))
      exKeyLen == Len(norm(existing.keyword))
      inKeyLen == Len(norm(incoming.keyword))
      exStoreLen == Len(norm(existing.store))
      inStoreLen == Len(norm(incoming.store))
      exRemarkLen == Len(norm(existing.remark))
      inRemarkLen == Len(norm(incoming.remark))
  IN  IF ~exLink /\ inLink THEN incoming
      ELSE IF exLink = inLink /\ ~exImg /\ inImg THEN incoming
      ELSE IF exLink = inLink /\ exImg = inImg /\ inTitleLen > exTitleLen THEN incoming
      ELSE IF exLink = inLink /\ exImg = inImg /\ inTitleLen = exTitleLen
              /\ inKeyLen > exKeyLen THEN incoming
      ELSE IF exLink = inLink /\ exImg = inImg /\ inTitleLen = exTitleLen
              /\ inKeyLen = exKeyLen /\ inStoreLen > exStoreLen THEN incoming
      ELSE IF exLink = inLink /\ exImg = inImg /\ inTitleLen = exTitleLen
              /\ inKeyLen = exKeyLen /\ inStoreLen = exStoreLen
              /\ inRemarkLen > exRemarkLen THEN incoming
      ELSE IF exLink = inLink /\ exImg = inImg /\ inTitleLen = exTitleLen
              /\ incoming._idx > existing._idx THEN incoming
      ELSE existing

pickBetter(existing, incoming) ==
  LET exLink == isValidHttpUrl(existing.link)
      inLink == isValidHttpUrl(incoming.link)
      exImg == norm(existing.image_url) # <<>>
      inImg == norm(incoming.image_url) # <<>>
      exTitleLen == Len(norm(existing.title))
      inTitleLen == Len(norm(incoming.title))
      exKeyLen == Len(norm(existing.keyword))
      inKeyLen == Len(norm(incoming.keyword))
      exStoreLen == Len(norm(existing.store))
      inStoreLen == Len(norm(incoming.store))
      exRemarkLen == Len(norm(existing.remark))
      inRemarkLen == Len(norm(incoming.remark))
      exIdx == existing._idx
      inIdx == incoming._idx
  IN  IF ~exLink /\ inLink THEN incoming
      ELSE IF exLink = inLink /\ ~exImg /\ inImg THEN incoming
      ELSE IF exLink = inLink /\ exImg = inImg /\ inTitleLen > exTitleLen THEN incoming
      ELSE IF exLink = inLink /\ exImg = inImg /\ inTitleLen = exTitleLen
              /\ inKeyLen > exKeyLen THEN incoming
      ELSE IF exLink = inLink /\ exImg = inImg /\ inTitleLen = exTitleLen
              /\ inKeyLen = exKeyLen /\ inStoreLen > exStoreLen THEN incoming
      ELSE IF exLink = inLink /\ exImg = inImg /\ inTitleLen = exTitleLen
              /\ inKeyLen = exKeyLen /\ inStoreLen = exStoreLen
              /\ inRemarkLen > exRemarkLen THEN incoming
      ELSE IF exLink = inLink /\ exImg = inImg /\ inTitleLen = exTitleLen
              /\ inIdx < exIdx THEN incoming
      ELSE existing

(* --------------------------- reconciliation ---------------------------- *)
NoReason == ""
NonAmazonReason == "non_amazon_numeric_asin"
InactiveReason == "inactive_status"
RemovedReason == "removed_from_active"

\* the item built for every row that has a market and an asin
baseItem(o, rowIdx, prevMap, nowTs) ==
  LET market == normalizeMarket(o.market)
      asin == normalizeAsin(o.asin)
      k == keyOfMA(market, asin)
  IN  [market    |-> market,
       asin      |-> asin,
       title     |-> norm(o.title),
       keyword   |-> norm(o.keyword),
       store     |-> norm(o.store),
       remark    |-> norm(o.remark),
       status    |-> norm(o.status),
       link      |-> normalizeUrl(o.link),
       image_url |-> norm(o.image_url),
       _idx      |-> rowIdx,
       _ts       |-> IF k \in DOMAIN prevMap /\ prevMap[k]._ts # 0
                     THEN prevMap[k]._ts ELSE nowTs,
       _updated  |-> nowTs,
       _hidden_reason |-> NoReason]

\* mutant: the all-digits test is reached only for rows that are not published
RowClassDigitsUnderInactive(o) ==
  IF normalizeMarket(o.market) = <<>> \/ normalizeAsin(o.asin) = <<>> THEN "Skip"
  ELSE IF ~isActiveStatus(o.status)
       THEN IF isNonAmazonByAsin(normalizeAsin(o.asin)) THEN "NonAmazon" ELSE "Inactive"
  ELSE "Active"

RowClass(o) ==
  IF normalizeMarket(o.market) = <<>> \/ normalizeAsin(o.asin) = <<>> THEN "Skip"
  ELSE IF isNonAmazonByAsin(normalizeAsin(o.asin)) THEN "NonAmazon"
  ELSE IF ~isActiveStatus(o.status) THEN "Inactive"
  ELSE "Active"

\* mutant: the active record is not copied into the archive mapping
PlaceItemWithoutMirror(st, cls, item, k) ==
  IF cls = "Skip" THEN st
  ELSE IF cls = "NonAmazon" THEN
    [st EXCEPT !.archiveMap =
       MapSet(@, k, [item EXCEPT !._hidden_reason = NonAmazonReason])]
  ELSE IF cls = "Inactive" THEN
    [st EXCEPT !.archiveMap =
       MapSet(@, k, [item EXCEPT !._hidden_reason = InactiveReason])]
  ELSE IF k \notin DOMAIN st.activeMap THEN
    [st EXCEPT !.activeMap = MapSet(@, k, item)]
  ELSE
    [activeMap  |-> MapSet(st.activeMap, k, pickBetter(st.activeMap[k], item)),
     archiveMap |-> st.archiveMap,
     dupActive  |-> st.dupActive + 1]

\* the tail of one loop iteration: the row's class and item are known
PlaceItem(st, cls, item, k) ==
  IF cls = "Skip" THEN st
  ELSE IF cls = "NonAmazon" THEN
    [st EXCEPT !.archiveMap =
       MapSet(@, k, [item EXCEPT !._hidden_reason = NonAmazonReason])]
  ELSE IF cls = "Inactive" THEN
    [st EXCEPT !.archiveMap =
       MapSet(@, k, [item EXCEPT !._hidden_reason = InactiveReason])]
  ELSE IF k \notin DOMAIN st.activeMap THEN
    [activeMap  |-> MapSet(st.activeMap, k, item),
     archiveMap |-> MapSet(st.archiveMap, k, item),
     dupActive  |-> st.dupActive]
  ELSE
    [activeMap  |-> MapSet(st.activeMap, k, pickBetter(st.activeMap[k], item)),
     archiveMap |-> MapSet(st.archiveMap, k, pickBetter(st.activeMap[k], item)),
     dupActive  |-> st.dupActive + 1]

\* mutant: the map key is taken from the trimmed cells, before upper-casing
ClassifyAndPlaceByCellKey(st, o, item) ==
  PlaceItem(st, RowClass(o), item, o.market \o <<"|">> \o o.asin)

ClassifyAndPlace(st, o, item) == PlaceItem(st, RowClass(o), item, keyOf(item))

BuildAndPlace(st, o, rowIdx, prevMap, nowTs) ==
  ClassifyAndPlace(st, o, baseItem(o, rowIdx, prevMap, nowTs))

\* one iteration of the loop over dataRows; st = [activeMap, archiveMap, dupActive]
ProcessRow(st, cells, rowIdx, prevMap, nowTs) ==
  BuildAndPlace(st, mapRow(cells), rowIdx, prevMap, nowTs)

RECURSIVE ProcessRows(_, _, _, _, _)
ProcessRows(st, dataRows, rowIdx, prevMap, nowTs) ==
  IF dataRows = <<>> THEN st
  ELSE ProcessRows(ProcessRow(st, Head(dataRows), rowIdx, prevMap, nowTs),
                   Tail(dataRows), rowIdx + 1, prevMap, nowTs)

\* Array.from(activeMap.values()).sort((a, b) => a._idx - b._idx)
RECURSIVE SortByIdx(_)
SortByIdx(items) ==
  IF items = {} THEN <<>>
  ELSE LET m == CHOOSE x \in items : \A y \in items : x._idx <= y._idx
       IN  <<m>> \o SortByIdx(items \ {m})

KeyBefore(a, b) ==
  LET am == localeCompare(upper(a.market), upper(b.market))
  IN  IF am # 0 THEN am < 0
      ELSE localeCompare(upper(a.asin), upper(b.asin)) <= 0

\* Array.from(archiveMap.values()).sort(by market, then asin)
RECURSIVE SortByKey(_)
SortByKey(items) ==
  IF items = {} THEN <<>>
  ELSE LET m == CHOOSE x \in items : \A y \in items : KeyBefore(x, y)
       IN  <<m>> \o SortByKey(items \ {m})

\* mutant: the removal step has not run when the archive is sorted and written
RemovedKeysNotYetComputed(prevMap, nextKeys) == {}

\* the removed-from-active step over prevMap
RemovedKeys(prevMap, nextKeys) == {k \in DOMAIN prevMap : k \notin nextKeys}

\* mutant: without the test of archiveMap.has(k), the prior active record replaces
\* the archive entry of every key that left the active collection
ArchiveAfterRemovalOverwriting(archiveMap, prevMap, nextKeys) ==
  [k \in (DOMAIN archiveMap) \cup RemovedKeys(prevMap, nextKeys) |->
     IF k \in RemovedKeys(prevMap, nextKeys)
     THEN [prevMap[k] EXCEPT !._hidden_reason =
             IF @ # NoReason THEN @ ELSE RemovedReason]
     ELSE archiveMap[k]]

\* mutant: the tag is also put on the entry the archive already holds for a key
\* that left the active collection
ArchiveAfterRemovalRetagging(archiveMap, prevMap, nextKeys) ==
  [k \in (DOMAIN archiveMap) \cup RemovedKeys(prevMap, nextKeys) |->
     IF k \notin DOMAIN archiveMap
     THEN [prevMap[k] EXCEPT !._hidden_reason =
             IF @ # NoReason THEN @ ELSE RemovedReason]
     ELSE IF k \in RemovedKeys(prevMap, nextKeys)
     THEN [archiveMap[k] EXCEPT !._hidden_reason =
             IF @ # NoReason THEN @ ELSE RemovedReason]
     ELSE archiveMap[k]]

ArchiveAfterRemoval(archiveMap, prevMap, nextKeys) ==
  LET added == {k \in RemovedKeys(prevMap, nextKeys) : k \notin DOMAIN archiveMap}
  IN  [k \in (DOMAIN archiveMap) \cup added |->
         IF k \in DOMAIN archiveMap THEN archiveMap[k]
         ELSE [prevMap[k] EXCEPT !._hidden_reason =
                 IF @ # NoReason THEN @ ELSE RemovedReason]]

KeysOf(list) == {keyOf(list[i]) : i \in 1..Len(list)}

\* nextProducts is sorted: the removal step, the archive sort and the counters
ReconcileResult(st, prevMap, nextProducts) ==
  [nextProducts |-> nextProducts,
   nextArchive  |-> SortByKey(MapValues(
                      ArchiveAfterRemoval(st.archiveMap, prevMap, KeysOf(nextProducts)))),
   dupActive    |-> st.dupActive,
   removedCount |-> Cardinality(RemovedKeys(prevMap, KeysOf(nextProducts)))]

\* the row loop is over: products.json keeps the CSV order
ReconcileLoopDone(st, prevMap) ==
  ReconcileResult(st, prevMap, SortByIdx(MapValues(st.activeMap)))

ReconcileRows(dataRows, prevMap, archiveMap0, nowTs) ==
  ReconcileLoopDone(
    ProcessRows([activeMap |-> EmptyMap, archiveMap |-> archiveMap0, dupActive |-> 0],
                dataRows, 0, prevMap, nowTs),
    prevMap)

\* main from the row loop on, given the prior active list and the archive mapping
ReconcileFrom(rows, prevProducts, archiveMap0, nowTs) ==
  ReconcileRows(dataRowsOf(rows), MapFromList(prevProducts), archiveMap0, nowTs)

\* mutant: the archive mapping is rebuilt from the feed alone
ReconcileWithoutPriorArchive(rows, prevProducts, prevArchive, nowTs) ==
  ReconcileFrom(rows, prevProducts, EmptyMap, nowTs)

\* main, from the load of the prior state to nextProducts and nextArchive
Reconcile(rows, prevProducts, prevArchive, nowTs) ==
  ReconcileFrom(rows, prevProducts, MapFromList(prevArchive), nowTs)

\* what the body holds: no row at all, a header alone, data rows none of which
\* has a market and an asin, or at least one usable row
FeedKindOf(body) ==
  IF body.empty THEN "empty"
  ELSE IF body.rows = <<>> THEN "header_only"
  ELSE IF \A i \in 1..Len(body.rows) :
            ~IsNonBlankRow(body.rows[i]) \/ RowClass(mapRow(body.rows[i])) = "Skip"
       THEN "no_usable"
       ELSE "usable"

(* ------------------------------ the feed ------------------------------- *)
Row(m, a, t, l, img, st) ==
  [market |-> m, asin |-> a, title |-> t, keyword |-> <<>>, store |-> <<>>,
   remark |-> <<>>, link |-> l, image_url |-> img, status |-> st]

FeedRows ==
  { Row(<<"u", "s">>, <<"b", "1">>, <<"t", "t">>, <<"http://", "x">>, <<"i">>, <<>>),
    Row(<<" ", "U", "S">>, <<"B", "1", " ">>, <<"t">>, <<"x">>, <<>>, <<"O", "N">>),
    Row(<<"U", "S">>, <<"B", "1">>, <<>>, <<>>, <<>>, <<"o", "f", "f">>),
    Row(<<"U", "S">>, <<"B", "2">>, <<>>, <<>>, <<>>, <<"1">>),
    Row(<<"U", "S">>, <<"1", "2">>, <<>>, <<>>, <<>>, <<"o", "n">>),
    Row(<<"U", "S">>, <<" ", "1", "2">>, <<>>, <<>>, <<>>, <<"0">>),
    Row(<<"U", "S">>, <<"1", "2", " ">>, <<>>, <<>>, <<>>, <<>>),
    Row(<<>>, <<"B", "1">>, <<"t">>, <<>>, <<>>, <<>>),
    Row(<<>>, <<>>, <<>>, <<>>, <<>>, <<>>) }

\* rows whose image_url is a downloadable URL
OgRows ==
  { Row(<<"U", "S">>, <<"B", "1">>, <<>>, <<>>, <<"http://", "i">>, <<>>),
    Row(<<"U", "S">>, <<"B", "1">>, <<>>, <<>>, <<"https://", "j">>, <<>>),
    Row(<<"U", "S">>, <<"B", "1">>, <<>>, <<>>, <<>>, <<>>),
    Row(<<"U", "S">>, <<"B", "2">>, <<>>, <<>>, <<"http://", "i">>, <<>>) }

\* one record whose image_url changes between runs
CacheRows ==
  { Row(<<"U", "S">>, <<"B", "1">>, <<>>, <<>>, <<"http://", "i">>, <<>>),
    Row(<<"U", "S">>, <<"B", "1">>, <<>>, <<>>, <<"https://", "j">>, <<>>) }

\* a row with a keyword cell
RowK(m, a, t, k, l, img, st) == [Row(m, a, t, l, img, st) EXCEPT !.keyword = k]

\* rows of one key that differ in what the dedup comparator looks at, a row of
\* that key with an unpublished status, and a row of another key
DedupRows ==
  { RowK(<<"U", "S">>, <<"B", "1">>, t, k, l, <<>>, <<>>) :
      t \in {<<"t">>, <<"t", "t">>}, k \in {<<>>, <<"k">>},
      l \in {<<"x">>, <<"http://", "x">>} }
    \cup { Row(<<"U", "S">>, <<"B", "1">>, <<"t">>, l, <<"i">>, <<>>) :
             l \in {<<"x">>, <<"http://", "x">>} }
    \cup { Row(<<"U", "S">>, <<"B", "1">>, <<"t", "t", "t">>, <<"http://", "x">>, <<"i">>,
              <<"o", "f", "f">>),
           Row(<<"U", "S">>, <<"B", "2">>, <<"t", "t", "t">>, <<"http://", "x">>, <<"i">>,
              <<>>) }

\* status cells: the words the code takes as published, other words, and each of
\* them as it is, in upper case, capitalised, and in upper case between blanks
PublishedWords ==
  { <<"1">>,
    <<"t", "r", "u", "e">>,
    <<"y", "e", "s">>,
    <<"o", "n">>,
    <<"a", "c", "t", "i", "v", "e">>,
    <<"e", "n", "a", "b", "l", "e", "d">>,
    <<"p", "u", "b", "l", "i", "s", "h">>,
    <<"p", "u", "b", "l", "i", "s", "h", "e", "d">>,
    <<"o", "n", "l", "i", "n", "e">> }
OtherWords ==
  { <<"0">>,
    <<"o", "f", "f">>,
    <<"n", "o">>,
    <<"f", "a", "l", "s", "e">>,
    <<"i", "n", "a", "c", "t", "i", "v", "e">>,
    <<"d", "i", "s", "a", "b", "l", "e", "d">>,
    <<"d", "r", "a", "f", "t">>,
    <<"u", "n", "p", "u", "b", "l", "i", "s", "h", "e", "d">>,
    <<"o", "f", "f", "l", "i", "n", "e">>,
    <<"2">>,
    <<"p", "u", "b", "l", "i", "s", "h", "e">>,
    <<"y", "e", "s", "1">>,
    <<"o", " ", "n">>,
    <<"o", "n", "n">> }
Capitalised(word) == <<toUpperCaseChar(Head(word))>> \o Tail(word)
CellsOfWord(word) ==
  {word, toUpperCase(word), Capitalised(word),
   <<" ">> \o toUpperCase(word) \o <<" ", " ">>}
BlankCells == {<<>>, <<" ">>, <<" ", " ">>}
PublishedCells == BlankCells \cup UNION {CellsOfWord(word) : word \in PublishedWords}
OtherCells == UNION {CellsOfWord(word) : word \in OtherWords}
NumericAsinCells == {<<"1", "2">>, <<" ", "0", "7", " ">>}
LetterAsinCells == {<<"B", "1">>, <<"1", "a">>}

\* one row for every asin cell and status cell
StatusRows ==
  { Row(<<"U", "S">>, a, <<>>, <<>>, <<>>, st) :
      a \in NumericAsinCells \cup LetterAsinCells, st \in PublishedCells \cup OtherCells }

(* A response body: no rows at all (empty text), or a header row followed  *)
(* by data rows.                                                           *)
BodiesOver(rowSet, maxRows) ==
  {[empty |-> TRUE, rows |-> <<>>]}
    \cup {[empty |-> FALSE, rows |-> rs] :
            rs \in UNION {[1..n -> rowSet] : n \in 0..maxRows}}

Bodies == BodiesOver(FeedRows, MaxRows)
OgBodies == BodiesOver(OgRows, MaxOgRows)
CacheBodies == BodiesOver(CacheRows, 1)
DedupBodies == BodiesOver(DedupRows, MaxDedupRows)
StatusBodies == BodiesOver(StatusRows, 1)

FetchOutcomes == {"ok", "http_error", "network_error"}

\* the body of a non-success response: a page that is no CSV of products
ErrorBody ==
  [empty |-> FALSE, rows |-> <<Row(<<>>, <<>>, <<"e", "r", "r", "o", "r">>, <<>>, <<>>, <<>>)>>]

\* mutant: res.ok is not tested, the body of an error response is returned
fetchTextWithoutOkTest(outcome, body) ==
  IF outcome = "network_error" THEN [threw |-> TRUE, body |-> body]
  ELSE [threw |-> FALSE, body |-> body]

\* fetchText: the text, or a throw on a network error or a non-success response
fetchText(outcome, body) ==
  IF outcome = "network_error" THEN [threw |-> TRUE, body |-> body]
  ELSE IF outcome = "http_error" THEN [threw |-> TRUE, body |-> body]
  ELSE [threw |-> FALSE, body |-> body]

(* ------------------------------- files --------------------------------- *)
NoFile == [exists |-> FALSE, items |-> <<>>]
JsonFile(items) == [exists |-> TRUE, items |-> items]

\* safeReadJson(file, fallback)
safeReadJson(file, fallback) == IF ~file.exists THEN fallback ELSE file.items

NoDir == [exists |-> FALSE, pages |-> {}]
EmptyDir == [exists |-> TRUE, pages |-> {}]

\* fs.writeFileSync(path.join(dir, "index.html"), html): one document per path
WritePage(dir, page) ==
  [exists |-> TRUE,
   pages  |-> {q \in dir.pages : q.path # page.path} \cup {page}]

PlaceholderImg == "og-placeholder.jpg"

(* --------------------------- catalog writes ---------------------------- *)
WriteOutcomes == {"ok", "throw"}

\* writeJsonPretty(file, obj): the file holds obj, or the write throws
writeJsonPretty(file, obj, outcome) ==
  IF outcome = "ok"
  THEN [threw |-> FALSE, file |-> JsonFile(obj)]
  ELSE [threw |-> TRUE, file |-> file]

\* writeJsonPretty(PRODUCTS_PATH, nextProducts)
(* ------------------------------ og images ------------------------------ *)
MinBytes == 4096
MaxAttempts == 2

Responses ==
  { [throws |-> FALSE, ok |-> TRUE,  ct |-> "image/jpeg", bytes |-> 4096],
    [throws |-> FALSE, ok |-> TRUE,  ct |-> "image/png",  bytes |-> 5000],
    [throws |-> FALSE, ok |-> TRUE,  ct |-> "image/webp", bytes |-> 5000],
    [throws |-> FALSE, ok |-> TRUE,  ct |-> "image/jpeg", bytes |-> 4095],
    [throws |-> FALSE, ok |-> FALSE, ct |-> "image/jpeg", bytes |-> 5000],
    [throws |-> TRUE,  ok |-> FALSE, ct |-> "",           bytes |-> 0] }

guessExtFromContentType(ct) ==
  IF ct \in {"image/jpeg", "image/jpg"} THEN "jpg"
  ELSE IF ct = "image/png" THEN "png"
  ELSE ""

\* mutant: the length of the body is not tested
tryOnceAnyLength(resp) ==
  IF resp.throws THEN ""
  ELSE IF ~resp.ok THEN ""
  ELSE guessExtFromContentType(resp.ct)

\* tryOnce, with a throw of the fetch swallowed by the caller: the extension, or ""
tryOnce(resp) ==
  IF resp.throws THEN ""
  ELSE IF ~resp.ok THEN ""
  ELSE IF guessExtFromContentType(resp.ct) = "" THEN ""
  ELSE IF resp.bytes < MinBytes THEN ""
  ELSE guessExtFromContentType(resp.ct)

\* downloadOgImage: resps[attempt] is the response to that attempt
downloadOgImage(imageUrl, resps) ==
  LET url == safeHttps(imageUrl)
      good == {a \in 1..MaxAttempts : tryOnce(resps[a]) # ""}
  IN  IF ~isValidHttpUrl(url) THEN [ext |-> "", bytes |-> 0, calls |-> 0, url |-> url]
      ELSE IF good = {} THEN [ext |-> "", bytes |-> 0, calls |-> MaxAttempts, url |-> url]
      ELSE LET a == CHOOSE x \in good : \A y \in good : x <= y
           IN  [ext |-> tryOnce(resps[a]), bytes |-> resps[a].bytes, calls |-> a,
                url |-> url]

\* the responses a record can get: none matters when it makes no request, and the
\* second only when the first attempt did not succeed
NoResponse == [throws |-> TRUE, ok |-> FALSE, ct |-> "", bytes |-> 0]
AttemptResponses(usesNetwork) ==
  IF ~usesNetwork THEN {<<NoResponse, NoResponse>>}
  ELSE {<<first, first>> : first \in {r \in Responses : tryOnce(r) # ""}}
         \cup {<<first, second>> : first \in {r \in Responses : tryOnce(r) = ""},
                                   second \in Responses}

\* mutant: the asin is missing from the path, the records of a market share a file
ogBaseOfMarket(market, asin) == <<toLowerCase(market)>>

\* path.join(ogDirAbs, market.toLowerCase(), asin)
ogBase(market, asin) == <<toLowerCase(market), asin>>

\* mutant: only the .jpg file is looked for
findExistingJpgOnly(files, market, asin) ==
  IF \E f \in files : f.path = ogBase(market, asin) /\ f.ext = "jpg" THEN "jpg"
  ELSE ""

findExistingOgFile(files, market, asin) ==
  IF \E f \in files : f.path = ogBase(market, asin) /\ f.ext = "jpg" THEN "jpg"
  ELSE IF \E f \in files : f.path = ogBase(market, asin) /\ f.ext = "png" THEN "png"
  ELSE ""

\* fs.writeFileSync(outAbs, buf)
WriteOgFile(files, base, ext, url) ==
  {f \in files : ~(f.path = base /\ f.ext = ext)}
    \cup {[path |-> base, ext |-> ext, src |-> url]}

\* const desiredSrc = img ? safeHttps(img) : ""
desiredSrcOf(p) ==
  IF norm(p.image_url) # <<>> THEN safeHttps(norm(p.image_url)) ELSE <<>>

\* mutant: the source URL of the manifest entry is not compared
canReuseIgnoringSrc(p, files, manifest) ==
  LET existing == findExistingOgFile(files, upper(p.market), upper(p.asin))
      k == keyOfMA(upper(p.market), upper(p.asin))
  IN  /\ existing # ""
      /\ k \in DOMAIN manifest
      /\ manifest[k].ext = existing

\* the cache-hit test of the page loop
canReuse(p, files, manifest) ==
  LET existing == findExistingOgFile(files, upper(p.market), upper(p.asin))
      k == keyOfMA(upper(p.market), upper(p.asin))
  IN  /\ existing # ""
      /\ k \in DOMAIN manifest
      /\ manifest[k].ext = existing
      /\ manifest[k].src = desiredSrcOf(p)

\* the record reaches the network: no cache hit and a URL that downloadOgImage accepts
UsesNetwork(p, files, manifest) ==
  /\ ~canReuse(p, files, manifest)
  /\ norm(p.image_url) # <<>>
  /\ isValidHttpUrl(safeHttps(norm(p.image_url)))

\* mutant: the keep-old branch after a failed download records the new source URL
ResolveImageRecordingKeepOld(p, files, manifest, resps, now) ==
  LET market == upper(p.market)
      asin == upper(p.asin)
      img == norm(p.image_url)
      k == keyOfMA(market, asin)
      existing == findExistingOgFile(files, market, asin)
      keepOld == IF existing # "" THEN existing ELSE PlaceholderImg
      keepHow == IF existing # "" THEN "keep-old" ELSE "fail"
  IN  IF canReuse(p, files, manifest)
      THEN [img |-> existing, files |-> files, manifest |-> manifest, calls |-> 0,
            how |-> "reuse"]
      ELSE IF img # <<>>
      THEN LET r == downloadOgImage(img, resps)
           IN  IF r.ext # ""
               THEN [img |-> r.ext,
                     files |-> WriteOgFile(files, ogBase(market, asin), r.ext, r.url),
                     manifest |-> MapSet(manifest, k,
                                   [src |-> desiredSrcOf(p), ext |-> r.ext,
                                    bytes |-> r.bytes, at |-> now]),
                     calls |-> r.calls, how |-> "ok"]
               ELSE [img |-> keepOld, files |-> files,
                     manifest |-> IF k \in DOMAIN manifest
                                  THEN [manifest EXCEPT ![k].src = desiredSrcOf(p)]
                                  ELSE manifest,
                     calls |-> r.calls, how |-> keepHow]
      ELSE [img |-> keepOld, files |-> files, manifest |-> manifest, calls |-> 0,
            how |-> keepHow]

\* step 1 of the page loop for record p
ResolveImage(p, files, manifest, resps, now) ==
  LET market == upper(p.market)
      asin == upper(p.asin)
      img == norm(p.image_url)
      k == keyOfMA(market, asin)
      existing == findExistingOgFile(files, market, asin)
      desiredSrc == desiredSrcOf(p)
      keepOld == IF existing # "" THEN existing ELSE PlaceholderImg
  IN  IF canReuse(p, files, manifest)
      THEN [img |-> existing, files |-> files, manifest |-> manifest, calls |-> 0,
            how |-> "reuse"]
      ELSE IF img # <<>>
      THEN LET r == downloadOgImage(img, resps)
           IN  IF r.ext # ""
               THEN [img |-> r.ext,
                     files |-> WriteOgFile(files, ogBase(market, asin), r.ext, r.url),
                     manifest |-> MapSet(manifest, k,
                                   [src |-> desiredSrc, ext |-> r.ext,
                                    bytes |-> r.bytes, at |-> now]),
                     calls |-> r.calls, how |-> "ok"]
               ELSE [img |-> keepOld, files |-> files, manifest |-> manifest,
                     calls |-> r.calls,
                     how |-> IF existing # "" THEN "keep-old" ELSE "fail"]
      ELSE [img |-> keepOld, files |-> files, manifest |-> manifest, calls |-> 0,
            how |-> IF existing # "" THEN "keep-old" ELSE "fail"]

(* ------------------------------ /p pages ------------------------------- *)
HasMarketAndAsin(p) == p.market # <<>> /\ p.asin # <<>>

\* mutant: pages are made for the active collection only
uniqOfActiveOnly(activeList, archiveList) ==
  LET all == SelectSeq(activeList, HasMarketAndAsin)
      firsts == {i \in 1..Len(all) : \A j \in 1..(i - 1) : keyOf(all[j]) # keyOf(all[i])}
  IN  SortByKey({all[i] : i \in firsts})

\* all, then uniq (first record of each key), then the sort by market and asin
uniqOf(activeList, archiveList) ==
  LET all == SelectSeq(activeList \o archiveList, HasMarketAndAsin)
      firsts == {i \in 1..Len(all) : \A j \in 1..(i - 1) : keyOf(all[j]) # keyOf(all[i])}
  IN  SortByKey({all[i] : i \in firsts})

\* the document written for record p with the resolved image
PageOf(p, img) ==
  [path |-> <<toLowerCase(upper(p.market)), upper(p.asin)>>,
   img  |-> img,
   dst  |-> p.link]

\* dirs = [p |-> the published tree, tmp |-> the staging tree]
\* if (fs.existsSync(outTmpAbs)) fs.rmSync(outTmpAbs, ...); ensureDir(outTmpAbs)
CleanStaging(dirs) == [dirs EXCEPT !.tmp = EmptyDir]

\* mutant: the page is written under the published tree, as before staging existed
StagePageInPlace(dirs, page) == [dirs EXCEPT !.p = WritePage(@, page)]

\* path.join(outTmpAbs, market.toLowerCase(), asin)/index.html := html
StagePage(dirs, page) == [dirs EXCEPT !.tmp = WritePage(@, page)]

\* fs.rmSync(outDirAbs, { recursive: true, force: true })
RemovePublished(dirs) == [dirs EXCEPT !.p = NoDir]

\* fs.renameSync(outTmpAbs, outDirAbs)
RenameStaging(dirs) == [p |-> dirs.tmp, tmp |-> NoDir]

(* ----------------- tools/generate_product_pages.mjs ------------------- *)
MaxToolLen == 2

\* the value of a property that was never set, and of a call that returns nothing
Undefined == <<"undefined">>

isAllDigitsAsin(asin) ==
  upper(asin) # <<>> /\ \A i \in 1..Len(upper(asin)) : upper(asin)[i] \in Digits

isAllowedAsin(asin) == asin # <<>> /\ ~isAllDigitsAsin(asin)

\* .map((p) => ({ market: upper(p.market), asin: upper(p.asin), link, image_url }))
toolRecord(p) ==
  [market |-> upper(p.market), asin |-> upper(p.asin), link |-> norm(p.link),
   image_url |-> norm(p.image_url), __asinKey |-> Undefined]

AllowedRecord(p) == isAllowedAsin(p.asin)

\* [...active, ...archive].filter(market && asin).map(...).filter(isAllowedAsin)
allOf(active, archive) ==
  SelectSeq([i \in 1..Len(SelectSeq(active \o archive, HasMarketAndAsin)) |->
               toolRecord(SelectSeq(active \o archive, HasMarketAndAsin)[i])],
            AllowedRecord)

\* the comparator of all.sort: market, then asin, else 0
compareMarketAsin(a, b) ==
  IF upper(a.market) # upper(b.market)
  THEN localeCompare(upper(a.market), upper(b.market))
  ELSE IF upper(a.asin) # upper(b.asin)
  THEN localeCompare(upper(a.asin), upper(b.asin))
  ELSE 0

\* Array.prototype.sort is stable: records that compare 0 keep their order
SortedBefore(list, j, i) ==
  \/ compareMarketAsin(list[j], list[i]) < 0
  \/ compareMarketAsin(list[j], list[i]) = 0 /\ j < i

SortedPosition(list, i) ==
  Cardinality({j \in 1..Len(list) : SortedBefore(list, j, i)}) + 1

stableSort(list) ==
  [n \in 1..Len(list) |->
     list[CHOOSE i \in 1..Len(list) : SortedPosition(list, i) = n]]

DigitChars == <<"0", "1", "2", "3", "4", "5", "6", "7", "8", "9">>

\* the decimal digits of n, as template literals print a number
RECURSIVE DecimalOf(_)
DecimalOf(n) ==
  IF n < 10 THEN <<DigitChars[n + 1]>>
  ELSE DecimalOf(n \div 10) \o <<DigitChars[(n % 10) + 1]>>

\* seen === 0 ? a : `${a}_${seen}`
asinKeyOf(a, seen) == IF seen = 0 THEN a ELSE a \o <<"_">> \o DecimalOf(seen)

\* counter.get(key) || 0
CounterGet(counter, key) == IF key \in DOMAIN counter THEN counter[key] ELSE 0

\* the loop of annotateAsinKeys from record i on: p.__asinKey is assigned on the
\* record passed in
RECURSIVE annotateFrom(_, _, _)
annotateFrom(list, i, counter) ==
  IF i > Len(list) THEN list
  ELSE annotateFrom(
         [list EXCEPT ![i].__asinKey =
            asinKeyOf(upper(list[i].asin), CounterGet(counter, keyOf(list[i])))],
         i + 1,
         MapSet(counter, keyOf(list[i]), CounterGet(counter, keyOf(list[i])) + 1))

\* annotateAsinKeys(list): no return statement; list is the array after the call
annotateAsinKeys(list) ==
  [returned |-> Undefined, list |-> annotateFrom(list, 1, EmptyMap)]

\* path.join(OUT_DIR, market.toLowerCase(), asinKey)/index.html
toolPageOf(p) ==
  [path |-> <<toLowerCase(upper(p.market)), p.__asinKey>>, img |-> p.image_url,
   dst |-> p.link]

\* main of the tool: union, sort, annotate, one page per record
toolResult(sorted, annotated) ==
  [ran |-> TRUE, arg |-> sorted, all |-> annotated.list,
   returned |-> annotated.returned,
   pages |-> {toolPageOf(annotated.list[i]) : i \in 1..Len(annotated.list)}]

toolMain(active, archive) ==
  toolResult(stableSort(allOf(active, archive)),
             annotateAsinKeys(stableSort(allOf(active, archive))))

NoToolInput == [active |-> <<>>, archive |-> <<>>]
NoToolOutput == [ran |-> FALSE, arg |-> <<>>, all |-> <<>>, returned |-> Undefined,
                 pages |-> {}]

\* records of products.json and archive.json as the tool reads them
ToolItem(m, a, l, idx) ==
  [market |-> m, asin |-> a, link |-> l, image_url |-> <<>>, _idx |-> idx]

ToolItems ==
  { ToolItem(<<"U", "S">>, <<"B", "1">>, <<"a">>, 0),
    ToolItem(<<"U", "S">>, <<"B", "1">>, <<"b">>, 1),
    ToolItem(<<"u", "s">>, <<"b", "1", " ">>, <<"c">>, 2),
    ToolItem(<<"U", "S">>, <<"B", "2">>, <<"a">>, 0),
    ToolItem(<<"U", "S">>, <<"1", "2">>, <<"a">>, 1),
    ToolItem(<<"U", "S">>, <<"B", "1", "_", "1">>, <<"d">>, 1) }

ToolLists == UNION {[1..n -> ToolItems] : n \in 0..MaxToolLen}

\* products.json is in feed order, archive.json has one record per key, by key
ToolActiveLists ==
  {l \in ToolLists : \A i, j \in 1..Len(l) : i < j => l[i]._idx < l[j]._idx}

ToolArchiveLists ==
  {l \in ToolLists :
     \A i, j \in 1..Len(l) :
       i < j => keyOf(l[i]) # keyOf(l[j]) /\ compareMarketAsin(l[i], l[j]) < 0}

\* the console lines of one iteration: the [og] line (reuse, ok, keep-old, fail),
\* the requests made, and whether writeFileSync of the page returned or threw
LogRecord(log, p, res, pageWrite) ==
  MapSet(log, keyOf(p),
         [how |-> res.how, calls |-> res.calls, img |-> res.img, page |-> pageWrite,
          path |-> PageOf(p, res.img).path])

(* ---------------------- scripts/sync_from_csv.mjs ----------------------- *)
(* The feed is taken as the data rows under a header row with the column    *)
(* names market, asin, title, keyword, store, remark, link, image_url and   *)
(* status.  A JSON document is [exists, isArray, items]; items is           *)
(* [isArray, list, map]: an array (list) or an object keyed by strings (map). *)
JsonItems(isArray, list, map) == [isArray |-> isArray, list |-> list, map |-> map]
NoDoc == [exists |-> FALSE, isArray |-> FALSE, items |-> JsonItems(FALSE, <<>>, EmptyMap)]

\* outProductsObj: { version, updatedAt, source, count, items: [ ... ] }
ProductsDoc(list) ==
  [exists |-> TRUE, isArray |-> FALSE, items |-> JsonItems(TRUE, list, EmptyMap)]

\* outArchiveObj: { version, updatedAt, source, count, items: { key: record } }
ArchiveDoc(map) ==
  [exists |-> TRUE, isArray |-> FALSE, items |-> JsonItems(FALSE, <<>>, map)]

ActiveWords ==
  { <<"1">>, <<"t", "r", "u", "e">>, <<"y", "e", "s">>, <<"y">>,
    <<"a", "c", "t", "i", "v", "e">>, <<"o", "n", "l", "i", "n", "e">>,
    <<"e", "n", "a", "b", "l", "e", "d">>, <<"p", "u", "b", "l", "i", "s", "h">>,
    <<"p", "u", "b", "l", "i", "s", "h", "e", "d">>,
    <<"i", "n", "_", "s", "t", "o", "c", "k">> }

toBoolActive(statusVal) == toLowerCase(norm(statusVal)) \in ActiveWords

\* pickFirst over the one column of that name: the value when it is not blank
pickFirst(v) == IF norm(v) # <<>> THEN v ELSE <<>>

buildKey(market, asin) == toUpperCase(market) \o <<"::">> \o norm(asin)

\* the item of one row
syncItem(cells, now) ==
  [market    |-> toUpperCase(norm(cells.market)),
   asin      |-> norm(cells.asin),
   title     |-> pickFirst(cells.title),
   keyword   |-> pickFirst(cells.keyword),
   store     |-> pickFirst(cells.store),
   remark    |-> pickFirst(cells.remark),
   link      |-> pickFirst(cells.link),
   image_url |-> pickFirst(cells.image_url),
   status    |-> pickFirst(cells.status),
   updatedAt |-> now]

\* archiveItems[k] = { ...archiveItems[k], ...it, archivedAt: old || now, lastSeenAt: now }
archiveSet(archiveItems, k, it, now) ==
  MapSet(archiveItems, k,
         [market |-> it.market, asin |-> it.asin, title |-> it.title,
          keyword |-> it.keyword, store |-> it.store, remark |-> it.remark,
          link |-> it.link, image_url |-> it.image_url, status |-> it.status,
          updatedAt |-> it.updatedAt,
          archivedAt |-> IF k \in DOMAIN archiveItems THEN archiveItems[k].archivedAt
                         ELSE now,
          lastSeenAt |-> now])

\* the loop over rows[1..]; st = [products, activeKeySet, archiveItems]
RECURSIVE syncRows(_, _, _)
syncRows(st, dataRows, now) ==
  IF dataRows = <<>> THEN st
  ELSE LET item == syncItem(Head(dataRows), now)
           k == buildKey(item.market, item.asin)
       IN  syncRows(
             IF item.market = <<>> \/ item.asin = <<>> THEN st
             ELSE IF toBoolActive(pickFirst(Head(dataRows).status))
             THEN [st EXCEPT !.products = Append(@, item),
                             !.activeKeySet = @ \cup {k}]
             ELSE [st EXCEPT !.archiveItems = archiveSet(@, k, item, now)],
             Tail(dataRows), now)

\* the loop over the items of the old products.json
RECURSIVE archiveVanished(_, _, _)
archiveVanished(st, oldList, now) ==
  IF oldList = <<>> THEN st
  ELSE archiveVanished(
         IF buildKey(Head(oldList).market, Head(oldList).asin) \in st.activeKeySet
         THEN st
         ELSE [st EXCEPT !.archiveItems =
                 archiveSet(@, buildKey(Head(oldList).market, Head(oldList).asin),
                            Head(oldList), now)],
         Tail(oldList), now)

\* products.sort by market, then asin; the sort is stable
sortProducts(list) ==
  LET cmp(a, b) == IF a.market # b.market THEN localeCompare(a.market, b.market)
                   ELSE localeCompare(a.asin, b.asin)
      before(j, i) == cmp(list[j], list[i]) < 0 \/ (cmp(list[j], list[i]) = 0 /\ j < i)
      position(i) == Cardinality({j \in 1..Len(list) : before(j, i)}) + 1
  IN  [n \in 1..Len(list) |-> list[CHOOSE i \in 1..Len(list) : position(i) = n]]

\* main after fetchText: the two documents it writes, or the throw of "rows < 2"
syncFromCsv(dataRows, productsOld, archiveOld, now) ==
  IF dataRows = <<>>
  THEN [threw |-> TRUE, products |-> productsOld, archive |-> archiveOld]
  ELSE LET archiveItems == IF archiveOld.exists /\ ~archiveOld.items.isArray
                           THEN archiveOld.items.map ELSE EmptyMap
           oldList == IF productsOld.exists /\ productsOld.items.isArray
                      THEN productsOld.items.list ELSE <<>>
           st == archiveVanished(
                   syncRows([products |-> <<>>, activeKeySet |-> {},
                             archiveItems |-> archiveItems], dataRows, now),
                   oldList, now)
       IN  [threw |-> FALSE, products |-> ProductsDoc(sortProducts(st.products)),
            archive |-> ArchiveDoc(st.archiveItems)]

\* fetchText(url, tries = 3) and its sleep(800 * t)
MaxTries == 3
SleepUnit == 800

\* main at the call of fetchText; f = [at, t, attempts, sleeps, text, err, next,
\* products, archive]: the position, the loop variable, the requests made, the
\* waits made, the text returned, lastErr, the documents in memory and on disk
fetchTextStart(productsOld, archiveOld) ==
  [fn |-> "sync_from_csv", at |-> "try", t |-> 1, attempts |-> 0, sleeps |-> <<>>,
   text |-> [empty |-> TRUE, rows |-> <<>>], returned |-> FALSE, err |-> "none",
   next |-> [products |-> NoDoc, archive |-> NoDoc],
   products |-> productsOld, archive |-> archiveOld]

\* the try block of one iteration: the request, the test of res.ok, the return
fetchTextTry(f, answer) ==
  IF answer.kind = "ok"
  THEN [f EXCEPT !.attempts = @ + 1, !.text = answer.body, !.returned = TRUE,
                 !.at = "validate"]
  ELSE [f EXCEPT !.attempts = @ + 1, !.err = answer.kind, !.at = "catch"]

\* mutant: the wait is made after every failed attempt, the last one included
fetchTextCatchAlwaysWaiting(f) ==
  [f EXCEPT !.sleeps = Append(@, SleepUnit * f.t),
            !.t = @ + 1,
            !.at = IF f.t < MaxTries THEN "try" ELSE "exit1"]

\* the catch block of one iteration, the loop step, and throw lastErr after the
\* loop, which the catch of main turns into process.exit(1)
fetchTextCatch(f) ==
  [f EXCEPT !.sleeps = IF f.t < MaxTries THEN Append(@, SleepUnit * f.t) ELSE @,
            !.t = @ + 1,
            !.at = IF f.t < MaxTries THEN "try" ELSE "exit1"]

\* main from the return of fetchText to the two documents in memory
syncValidate(f, now) ==
  IF f.text.empty \/ syncFromCsv(f.text.rows, f.products, f.archive, now).threw
  THEN [f EXCEPT !.at = "exit1", !.err = "invalid"]
  ELSE [f EXCEPT !.at = "write_products",
                 !.next = [products |-> syncFromCsv(f.text.rows, f.products,
                                                    f.archive, now).products,
                           archive |-> syncFromCsv(f.text.rows, f.products,
                                                   f.archive, now).archive]]

\* writeJSONMulti(OUT_PRODUCTS, ...) and writeJSONMulti(OUT_ARCHIVE, ...)
syncWrite(f, outcome) ==
  IF outcome = "throw" THEN [f EXCEPT !.at = "exit1", !.err = "write"]
  ELSE IF f.at = "write_products"
  THEN [f EXCEPT !.products = f.next.products, !.at = "write_archive"]
  ELSE [f EXCEPT !.archive = f.next.archive, !.at = "done"]

\* normalizeList of tools/generate_product_pages.mjs
normalizeList(json) ==
  IF json.isArray THEN json.items.list
  ELSE IF json.items.isArray THEN json.items.list
  ELSE <<>>

\* the steps of the job: the sync, then the page generator unless the sync failed
pipeline(dataRows, productsOld, archiveOld, now) ==
  LET s == syncFromCsv(dataRows, productsOld, archiveOld, now)
  IN  [fn |-> "pipeline", threw |-> s.threw, products |-> s.products,
       archive |-> s.archive,
       tool |-> IF s.threw THEN NoToolOutput
                ELSE toolMain(normalizeList(s.products), normalizeList(s.archive))]

\* no function is called on its own
NoCall == [fn |-> "none"]

(* ------------------------------- state --------------------------------- *)
VARIABLES
  productsFile,   \* products.json
  archiveFile,    \* archive.json
  pDir,           \* the published page tree /p
  tmpDir,         \* the staging tree /p__tmp
  ogFiles,        \* the image files under /og
  manifestFile,   \* og/og-manifest.json
  pc,             \* position of the run
  exit,           \* how the run ended
  run,            \* number of runs started; Date.now() of the run
  feed,           \* in memory: the body being parsed
  nextProducts,   \* in memory
  nextArchive,    \* in memory
  uniq,           \* in memory: records of the page loop
  cursor,         \* in memory: position in uniq
  ogManifest,     \* in memory
  swapFailed,     \* the call of the swap whose throw the catch block caught
  fetched,        \* how the fetch of this run ended
  feedKind,       \* what the parsed body of this run held
  old,            \* the persisted state when the run started
  ogLog,          \* what the page loop of this run did for each key
  toolIn,         \* tools/generate_product_pages.mjs: the two documents it reads
  toolOut,        \* tools/generate_product_pages.mjs: what one run of it did
  callIn,         \* a function called on its own: its arguments
  callOut         \* a function called on its own: what the call did

disk == <<productsFile, archiveFile, pDir, tmpDir, ogFiles, manifestFile>>
work == <<feed, nextProducts, nextArchive, uniq, cursor, ogManifest>>
vars == <<productsFile, archiveFile, pDir, tmpDir, ogFiles, manifestFile, pc, exit,
          run, feed, nextProducts, nextArchive, uniq, cursor, ogManifest, swapFailed,
          fetched, feedKind, old, ogLog, toolIn, toolOut, callIn, callOut>>

Snapshot ==
  [productsFile |-> productsFile, archiveFile |-> archiveFile, pDir |-> pDir,
   tmpDir |-> tmpDir, ogFiles |-> ogFiles, manifestFile |-> manifestFile]

NoBody == [empty |-> TRUE, rows |-> <<>>]
Dirs == [p |-> pDir, tmp |-> tmpDir]

InitSync ==
  /\ productsFile = NoFile
  /\ archiveFile = NoFile
  /\ pDir = NoDir
  /\ tmpDir = NoDir
  /\ ogFiles = {}
  /\ manifestFile = [exists |-> FALSE, items |-> EmptyMap]
  /\ pc = "idle"
  /\ exit = "none"
  /\ run = 0
  /\ feed = NoBody
  /\ nextProducts = <<>>
  /\ nextArchive = <<>>
  /\ uniq = <<>>
  /\ cursor = 0
  /\ ogManifest = EmptyMap
  /\ swapFailed = "no"
  /\ fetched = "none"
  /\ feedKind = "none"
  /\ old = Snapshot
  /\ ogLog = EmptyMap

Init ==
  /\ InitSync
  /\ toolIn = NoToolInput
  /\ toolOut = NoToolOutput
  /\ callIn = NoCall
  /\ callOut = NoCall

\* the memory of the process is gone
ClearWork ==
  /\ feed' = NoBody
  /\ nextProducts' = <<>>
  /\ nextArchive' = <<>>
  /\ uniq' = <<>>
  /\ cursor' = 0
  /\ ogManifest' = EmptyMap

\* the process ends and control is back with the scheduler: "fatal" is exit code
\* 1 through the catch of main, "success" is the [done] line and exit code 0
ExitWith(code) ==
  /\ pc' = "idle"
  /\ exit' = code
  /\ ClearWork

\* the two documents are on disk when the tool is started
InitTool ==
  /\ InitSync
  /\ toolIn \in {[active |-> a, archive |-> b] :
                   a \in ToolActiveLists, b \in ToolArchiveLists}
  /\ toolOut = NoToolOutput
  /\ callIn = NoCall
  /\ callOut = NoCall

(* ------------------------------ actions -------------------------------- *)
\* node tools/generate_product_pages.mjs
GeneratePages ==
  /\ ~toolOut.ran
  /\ toolOut' = toolMain(toolIn.active, toolIn.archive)
  /\ UNCHANGED <<disk, work, pc, exit, run, swapFailed, fetched, feedKind, old, ogLog,
                 toolIn, callIn, callOut>>

SpecTool == InitTool /\ [][GeneratePages]_vars

\* the scheduler starts the script
StartRunUpTo(maxRuns) ==
  /\ pc = "idle"
  /\ run < maxRuns
  /\ run' = run + 1
  /\ pc' = "fetch"
  /\ exit' = "running"
  /\ old' = Snapshot
  /\ ogLog' = EmptyMap
  /\ swapFailed' = "no"
  /\ fetched' = "none"
  /\ feedKind' = "none"
  /\ UNCHANGED <<disk, work, toolIn, toolOut,
                 callIn, callOut>>

\* const csvText = await fetchText(CSV_URL), the response body drawn from bodies
FetchFrom(bodies) ==
  /\ pc = "fetch"
  /\ \E outcome \in FetchOutcomes :
     \E body \in IF outcome = "ok" THEN bodies ELSE {ErrorBody} :
       LET res == fetchText(outcome, body)
       IN  /\ fetched' = outcome
           /\ IF res.threw
              THEN ExitWith("fatal")
              ELSE /\ feed' = res.body
                   /\ pc' = "reconcile"
                   /\ UNCHANGED <<exit, nextProducts, nextArchive, uniq, cursor,
                                  ogManifest>>
  /\ UNCHANGED <<disk, run, swapFailed, feedKind, old, ogLog, toolIn, toolOut,
                 callIn, callOut>>

StartRun == StartRunUpTo(MaxRuns)
StartRunCache == StartRunUpTo(MaxCacheRuns)

Fetch == FetchFrom(Bodies)
FetchOg == FetchFrom(OgBodies)
FetchCache == FetchFrom(CacheBodies)

\* parseCSV, the row loop, the removal step and the two sorts
ReconcileStep ==
  /\ pc = "reconcile"
  /\ feedKind' = FeedKindOf(feed)
  /\ IF feed.empty
     THEN ExitWith("fatal")
     ELSE LET r == Reconcile(feed.rows, safeReadJson(productsFile, <<>>),
                             safeReadJson(archiveFile, <<>>), run)
          IN  /\ nextProducts' = r.nextProducts
              /\ nextArchive' = r.nextArchive
              /\ pc' = "write_products"
              /\ UNCHANGED <<exit, feed, uniq, cursor, ogManifest>>
  /\ UNCHANGED <<disk, run, swapFailed, fetched, old, ogLog, toolIn, toolOut,
                 callIn, callOut>>

\* writeJsonPretty(PRODUCTS_PATH, nextProducts); csvText and rows are dead from here
WriteProducts ==
  /\ pc = "write_products"
  /\ \E outcome \in WriteOutcomes :
       LET w == writeJsonPretty(productsFile, nextProducts, outcome)
       IN  /\ productsFile' = w.file
           /\ IF w.threw
              THEN ExitWith("fatal")
              ELSE /\ pc' = "write_archive"
                   /\ feed' = NoBody
                   /\ UNCHANGED <<exit, nextProducts, nextArchive, uniq, cursor,
                                  ogManifest>>
  /\ UNCHANGED <<archiveFile, pDir, tmpDir, ogFiles, manifestFile, run, swapFailed,
                 fetched, feedKind, old, ogLog, toolIn, toolOut,
                 callIn, callOut>>

\* writeJsonPretty(ARCHIVE_PATH, nextArchive)
WriteArchive ==
  /\ pc = "write_archive"
  /\ \E outcome \in WriteOutcomes :
       LET w == writeJsonPretty(archiveFile, nextArchive, outcome)
       IN  /\ archiveFile' = w.file
           /\ IF w.threw
              THEN ExitWith("fatal")
              ELSE /\ pc' = "gen_clean"
                   /\ UNCHANGED <<exit, work>>
  /\ UNCHANGED <<productsFile, pDir, tmpDir, ogFiles, manifestFile, run, swapFailed,
                 fetched, feedKind, old, ogLog, toolIn, toolOut,
                 callIn, callOut>>

\* generatePPagesAndOgImages up to the page loop; a throw is caught by main,
\* which warns and goes on to the [done] line
GenClean ==
  /\ pc = "gen_clean"
  /\ \E outcome \in WriteOutcomes :
       IF outcome = "ok"
       THEN /\ pDir' = CleanStaging(Dirs).p
            /\ tmpDir' = CleanStaging(Dirs).tmp
            /\ ogManifest' = safeReadJson(manifestFile, EmptyMap)
            /\ uniq' = uniqOf(nextProducts, nextArchive)
            /\ cursor' = 1
            /\ pc' = IF uniqOf(nextProducts, nextArchive) = <<>>
                     THEN "swap_rm" ELSE "gen_loop"
            /\ UNCHANGED <<exit, feed, nextProducts, nextArchive>>
       ELSE /\ ExitWith("success")
            /\ UNCHANGED <<pDir, tmpDir>>
  /\ UNCHANGED <<productsFile, archiveFile, ogFiles, manifestFile, run, swapFailed,
                 fetched, feedKind, old, ogLog, toolIn, toolOut,
                 callIn, callOut>>

\* one iteration of the page loop: the image of uniq[cursor], then its page;
\* a throw of the page write is caught by main
GenRecord ==
  /\ pc = "gen_loop"
  /\ cursor <= Len(uniq)
  /\ \E resps \in AttemptResponses(UsesNetwork(uniq[cursor], ogFiles, ogManifest)),
        pageWrite \in WriteOutcomes :
       LET res == ResolveImage(uniq[cursor], ogFiles, ogManifest, resps, run)
           staged == StagePage(Dirs, PageOf(uniq[cursor], res.img))
       IN  /\ ogFiles' = res.files
           /\ ogLog' = LogRecord(ogLog, uniq[cursor], res, pageWrite)
           /\ IF pageWrite = "ok"
              THEN /\ pDir' = staged.p
                   /\ tmpDir' = staged.tmp
                   /\ ogManifest' = res.manifest
                   /\ cursor' = cursor + 1
                   /\ pc' = IF cursor = Len(uniq) THEN "swap_rm" ELSE "gen_loop"
                   /\ UNCHANGED <<exit, feed, nextProducts, nextArchive, uniq>>
              ELSE /\ ExitWith("success")
                   /\ UNCHANGED <<pDir, tmpDir>>
  /\ UNCHANGED <<productsFile, archiveFile, manifestFile, run, swapFailed, fetched,
                 feedKind, old, toolIn, toolOut,
                 callIn, callOut>>

\* the swap, first half: remove the published tree if it exists
SwapRemove ==
  /\ pc = "swap_rm"
  /\ IF ~pDir.exists
     THEN /\ pc' = "swap_rename"
          /\ UNCHANGED <<pDir, tmpDir, swapFailed>>
     ELSE \E outcome \in WriteOutcomes :
            IF outcome = "ok"
            THEN /\ pDir' = RemovePublished(Dirs).p
                 /\ tmpDir' = RemovePublished(Dirs).tmp
                 /\ pc' = "swap_rename"
                 /\ UNCHANGED swapFailed
            ELSE \* rmSync threw part way; the catch block warns
                 /\ \E left \in SUBSET pDir.pages :
                      pDir' = [exists |-> TRUE, pages |-> left]
                 /\ swapFailed' = "remove"
                 /\ pc' = "write_manifest"
                 /\ UNCHANGED tmpDir
  /\ UNCHANGED <<productsFile, archiveFile, ogFiles, manifestFile, exit, run, work,
                 fetched, feedKind, old, ogLog, toolIn, toolOut,
                 callIn, callOut>>

\* the swap, second half: rename the staging tree to the published tree
SwapRename ==
  /\ pc = "swap_rename"
  /\ \E outcome \in WriteOutcomes :
       IF outcome = "ok"
       THEN /\ pDir' = RenameStaging(Dirs).p
            /\ tmpDir' = RenameStaging(Dirs).tmp
            /\ UNCHANGED swapFailed
       ELSE /\ swapFailed' = "rename"
            /\ UNCHANGED <<pDir, tmpDir>>
  /\ pc' = "write_manifest"
  /\ UNCHANGED <<productsFile, archiveFile, ogFiles, manifestFile, exit, run, work,
                 fetched, feedKind, old, ogLog, toolIn, toolOut,
                 callIn, callOut>>

\* the manifest write in its try/catch, then the return to main and the [done] line
WriteManifest ==
  /\ pc = "write_manifest"
  /\ \E outcome \in WriteOutcomes :
       manifestFile' = writeJsonPretty(manifestFile, ogManifest, outcome).file
  /\ ExitWith("success")
  /\ UNCHANGED <<productsFile, archiveFile, pDir, tmpDir, ogFiles, run, swapFailed,
                 fetched, feedKind, old, ogLog, toolIn, toolOut,
                 callIn, callOut>>

\* the job is cancelled or the process is killed
Interrupt ==
  /\ pc # "idle"
  /\ ExitWith("killed")
  /\ UNCHANGED <<disk, run, swapFailed, fetched, feedKind, old, ogLog, toolIn, toolOut,
                 callIn, callOut>>

Next ==
  \/ StartRun
  \/ Fetch
  \/ ReconcileStep
  \/ WriteProducts
  \/ WriteArchive
  \/ GenClean
  \/ GenRecord
  \/ SwapRemove
  \/ SwapRename
  \/ WriteManifest
  \/ Interrupt

Spec == Init /\ [][Next]_vars

\* the same program on feeds whose images are downloadable
NextOg ==
  \/ StartRun
  \/ FetchOg
  \/ ReconcileStep
  \/ WriteProducts
  \/ WriteArchive
  \/ GenClean
  \/ GenRecord
  \/ SwapRemove
  \/ SwapRename
  \/ WriteManifest
  \/ Interrupt

SpecOg == Init /\ [][NextOg]_vars

\* three runs over one record, for the life of a cached image
NextCache ==
  \/ StartRunCache
  \/ FetchCache
  \/ ReconcileStep
  \/ WriteProducts
  \/ WriteArchive
  \/ GenClean
  \/ GenRecord
  \/ SwapRemove
  \/ SwapRename
  \/ WriteManifest
  \/ Interrupt

SpecCache == Init /\ [][NextCache]_vars

\* the first run of the script at the return of fetchText with a body of bodies
InitFetched(bodies) ==
  /\ productsFile = NoFile
  /\ archiveFile = NoFile
  /\ pDir = NoDir
  /\ tmpDir = NoDir
  /\ ogFiles = {}
  /\ manifestFile = [exists |-> FALSE, items |-> EmptyMap]
  /\ pc = "reconcile"
  /\ exit = "running"
  /\ run = 1
  /\ feed \in bodies
  /\ nextProducts = <<>>
  /\ nextArchive = <<>>
  /\ uniq = <<>>
  /\ cursor = 0
  /\ ogManifest = EmptyMap
  /\ swapFailed = "no"
  /\ fetched = "ok"
  /\ feedKind = "none"
  /\ old = Snapshot
  /\ ogLog = EmptyMap
  /\ toolIn = NoToolInput
  /\ toolOut = NoToolOutput
  /\ callIn = NoCall
  /\ callOut = NoCall

\* the reconciliation of feeds with up to MaxDedupRows rows of one key
SpecDedup == InitFetched(DedupBodies) /\ [][ReconcileStep]_vars

\* the reconciliation of feeds whose rows differ in asin and status
SpecStatus == InitFetched(StatusBodies) /\ [][ReconcileStep]_vars

\* a function of the script called on its own, on arguments drawn from inputs
InitCall(inputs) ==
  /\ InitSync
  /\ toolIn = NoToolInput
  /\ toolOut = NoToolOutput
  /\ callIn \in inputs
  /\ callOut = NoCall

\* step 1 of the page loop for one record: the image_url of the record, the
\* answers of the image server to a first and a second request, and the cached
\* file and manifest entry of the record, if any
DownloadUrls ==
  { <<"http://", "i">>, <<" ", "HTTP://", "i">>, <<"https://", "j">>, <<"http://", "o">>,
    <<"i">> }
DownloadResponses ==
  Responses \cup
    { [throws |-> FALSE, ok |-> TRUE,  ct |-> "image/png",  bytes |-> 4095],
      [throws |-> FALSE, ok |-> FALSE, ct |-> "image/png",  bytes |-> 5000],
      [throws |-> FALSE, ok |-> TRUE,  ct |-> "text/html",  bytes |-> 9000] }
DownloadRecord(url) ==
  [market |-> <<"U", "S">>, asin |-> <<"B", "1">>, link |-> <<>>, image_url |-> url]
CachedFile ==
  [path |-> ogBase(<<"U", "S">>, <<"B", "1">>), ext |-> "jpg", src |-> <<"https://", "o">>]
CachedEntry == [src |-> <<"https://", "o">>, ext |-> "jpg", bytes |-> 5000, at |-> 0]
DownloadCaches ==
  { [files |-> {}, manifest |-> EmptyMap],
    [files |-> {CachedFile}, manifest |-> EmptyMap],
    [files |-> {CachedFile},
     manifest |-> MapSet(EmptyMap, keyOfMA(<<"U", "S">>, <<"B", "1">>), CachedEntry)] }
DownloadInputs ==
  { [fn |-> "resolveImage", p |-> DownloadRecord(url), resps |-> <<first, second>>,
     files |-> cache.files, manifest |-> cache.manifest] :
      url \in DownloadUrls, first \in DownloadResponses, second \in DownloadResponses,
      cache \in DownloadCaches }

\* the iteration up to the page: downloadOgImage is called unless the cached file
\* is reused or the record has no image_url
ResolveImageCall ==
  /\ callIn.fn = "resolveImage"
  /\ callOut = NoCall
  /\ callOut' =
       [fn |-> "resolveImage",
        called |-> ~canReuse(callIn.p, callIn.files, callIn.manifest)
                     /\ norm(callIn.p.image_url) # <<>>,
        returned |-> downloadOgImage(norm(callIn.p.image_url), callIn.resps),
        res |-> ResolveImage(callIn.p, callIn.files, callIn.manifest, callIn.resps, 1)]
  /\ UNCHANGED <<disk, work, pc, exit, run, swapFailed, fetched, feedKind, old, ogLog,
                 toolIn, toolOut, callIn>>

SpecDownload == InitCall(DownloadInputs) /\ [][ResolveImageCall]_vars

(* ------------------------------- claims -------------------------------- *)
FeedKeys(body) ==
  {keyOfMA(body.rows[i].market, body.rows[i].asin) : i \in 1..Len(body.rows)}

UniqueKeys(list) ==
  \A i, j \in 1..Len(list) : keyOf(list[i]) = keyOf(list[j]) => i = j

\* C1: archive monotonicity.  No step of any run removes a key from the persisted
\* archive: every key of archive.json before the step is a key of it after the step.
C1_ArchiveMonotone ==
  [][KeysOf(archiveFile.items) \subseteq KeysOf(archiveFile'.items)]_vars

\* the second run has written the archive, and it still holds an entry that this
\* run did not refresh, so its key was in no usable row of this run's feed
C1_Witness ==
  /\ run = 2
  /\ \E i, j \in 1..Len(archiveFile.items) :
       archiveFile.items[i]._updated = 1 /\ archiveFile.items[j]._updated = 2

\* C2: no two records of the next active collection, in memory or as persisted in
\* products.json, have the same normalized (market, asin) key.
C2_ActiveKeysUnique ==
  UniqueKeys(nextProducts) /\ UniqueKeys(productsFile.items)

\* reconciliation is done on a feed with two Active rows of one key that differ in
\* letter case or blanks, and one record survived
C2_Witness ==
  /\ pc = "write_products"
  /\ Len(nextProducts) = 1
  /\ \E i, j \in 1..Len(feed.rows) :
       /\ i < j
       /\ RowClass(mapRow(feed.rows[i])) = "Active"
       /\ RowClass(mapRow(feed.rows[j])) = "Active"
       /\ keyOfMA(feed.rows[i].market, feed.rows[i].asin)
            = keyOfMA(feed.rows[j].market, feed.rows[j].asin)
       /\ feed.rows[i].market # feed.rows[j].market
       /\ feed.rows[i].asin # feed.rows[j].asin

\* C3: a record whose asin is all digits is never in the active collection: not in
\* products.json, not in nextProducts, and after reconciliation the key of every
\* all-digit feed row is absent from nextProducts, whatever its status.
C3_NumericNeverActive ==
  /\ \A i \in 1..Len(productsFile.items) : ~isAllDigits(productsFile.items[i].asin)
  /\ \A i \in 1..Len(nextProducts) : ~isAllDigits(nextProducts[i].asin)
  /\ pc = "write_products" =>
       \A i \in 1..Len(feed.rows) :
         isAllDigits(feed.rows[i].asin) =>
           keyOfMA(feed.rows[i].market, feed.rows[i].asin) \notin KeysOf(nextProducts)

\* a later run has reconciled a feed holding an all-digit row with a published
\* status beside an Active row
C3_Witness ==
  /\ pc = "write_products"
  /\ run = 2
  /\ old.productsFile.items # <<>>
  /\ nextProducts # <<>>
  /\ \E i \in 1..Len(feed.rows) :
       /\ isAllDigits(feed.rows[i].asin)
       /\ norm(feed.rows[i].market) # <<>>
       /\ norm(feed.rows[i].status) # <<>>
       /\ isActiveStatus(feed.rows[i].status)

\* C4: removal transition.  After reconciliation, every key of the prior active
\* collection that no feed row has is absent from nextProducts and present in
\* nextArchive tagged removed_from_active.
C4_RemovalTagged ==
  pc = "write_products" =>
    \A k \in KeysOf(old.productsFile.items) :
      k \notin FeedKeys(feed) =>
        /\ k \notin KeysOf(nextProducts)
        /\ \E i \in 1..Len(nextArchive) :
             keyOf(nextArchive[i]) = k /\ nextArchive[i]._hidden_reason = RemovedReason

\* C5: a run whose feed has data rows but no usable row persists nothing: the
\* contents of products.json, archive.json, the page tree and the manifest stay as
\* they were when the run started.
C5_NoUsableRowsPersistsNothing ==
  feedKind = "no_usable" =>
    /\ productsFile.items = old.productsFile.items
    /\ archiveFile.items = old.archiveFile.items
    /\ pDir.pages = old.pDir.pages
    /\ manifestFile.items = old.manifestFile.items

\* the page paths of the records persisted in the two catalog documents
CatalogPaths ==
  {PageOf(p, PlaceholderImg).path :
     p \in {q \in MapValues(productsFile.items) \cup MapValues(archiveFile.items) :
              HasMarketAndAsin(q)}}

\* C6: in a run that starts with a published, non-empty tree, the published tree is
\* at every point the tree the run started with or a complete new generation (one
\* page for every persisted record).
C6_TreeAlwaysComplete ==
  (old.pDir.exists /\ old.pDir.pages # {}) =>
    \/ pDir = old.pDir
    \/ pDir.exists /\ {q.path : q \in pDir.pages} = CatalogPaths

\* C7: when the rename of the swap fails, the tree published before the run is
\* still there unchanged, and the run does not end as a success.
C7_RenameFailureKeepsTree ==
  (swapFailed = "rename" /\ old.pDir.pages # {}) =>
    pDir = old.pDir /\ exit # "success"

StagingPcs == {"gen_clean", "gen_loop", "swap_rm"}

\* C8: from the start of page generation until the last page is staged (the swap
\* has not begun), the published tree is the tree the run started with, and a step
\* that stays in that phase or ends the run there (a throw, an interruption) does
\* not touch it.
C8_StagingLeavesPublished ==
  /\ [](pc \in StagingPcs => pDir = old.pDir)
  /\ [][(pc \in StagingPcs /\ pc' \in StagingPcs \cup {"idle"}) => pDir' = pDir]_vars

\* every page of a new generation is staged, over a published tree that differs
C8_Witness ==
  /\ pc = "swap_rm"
  /\ old.pDir.pages # {}
  /\ tmpDir.pages # {}
  /\ tmpDir.pages # pDir.pages

\* C9: when the fetch of the feed fails, the run has ended as failed and every
\* persisted object (products.json, archive.json, the page tree, the staging
\* directory, the cached images, the manifest) is as it was when the run started.
C9_FetchFailureTouchesNothing ==
  fetched \in {"http_error", "network_error"} =>
    pc = "idle" /\ exit = "fatal" /\ Snapshot = old

\* the fetch failed in a run that started with a catalog, pages, images and manifest
C9_Witness ==
  /\ fetched = "http_error"
  /\ productsFile.items # <<>>
  /\ archiveFile.items # <<>>
  /\ pDir.pages # {}
  /\ ogFiles # {}
  /\ DOMAIN manifestFile.items # {}

LivePcs == {"write_products", "write_archive", "gen_clean", "gen_loop", "swap_rm",
            "swap_rename", "write_manifest"}

\* C10: at every point of a run after reconciliation, the pair (products.json,
\* archive.json) holds the contents of the previous run's pair or the contents of
\* the pair computed by this run.
C10_CatalogPairAtomic ==
  pc \in LivePcs =>
    \/ /\ productsFile.items = old.productsFile.items
       /\ archiveFile.items = old.archiveFile.items
    \/ /\ productsFile.items = nextProducts
       /\ archiveFile.items = nextArchive

\* C11: a failed write of products.json, archive.json or the manifest is fatal.  No
\* step in which the file being written is left without the content of the write
\* (writeFileSync threw) ends the run as a success.
C11_WriteFailureIsFatal ==
  [][( \/ pc = "write_products" /\ productsFile' # JsonFile(nextProducts)
       \/ pc = "write_archive" /\ archiveFile' # JsonFile(nextArchive)
       \/ pc = "write_manifest" /\ manifestFile' # JsonFile(ogManifest) )
      => exit' # "success"]_vars

\* an image file of the record was in the cache when the run started
CachedBefore(path) == \E f \in old.ogFiles : f.path = path

\* C12: image fallback.  For every record the page loop of this run has handled: if
\* no download succeeded for it and a cached image file of its key existed, its page
\* references that cached file; its page references the placeholder only if no
\* download succeeded and no cached file existed.  The staged page carries the
\* image so resolved.
C12_ImageFallback ==
  \A k \in DOMAIN ogLog :
    /\ (ogLog[k].how # "ok" /\ CachedBefore(ogLog[k].path)) =>
         \E f \in old.ogFiles : f.path = ogLog[k].path /\ f.ext = ogLog[k].img
    /\ ogLog[k].img = PlaceholderImg =>
         ogLog[k].how # "ok" /\ ~CachedBefore(ogLog[k].path)
    /\ (pc \in {"gen_loop", "swap_rm"} /\ ogLog[k].page = "ok") =>
         \E q \in tmpDir.pages : q.path = ogLog[k].path /\ q.img = ogLog[k].img

\* both attempts of a download failed for a record with a cached file, and its page
\* is staged
C12_Witness ==
  /\ pc = "swap_rm"
  /\ \E k \in DOMAIN ogLog :
       /\ ogLog[k].calls = MaxAttempts
       /\ ogLog[k].how # "ok"
       /\ CachedBefore(ogLog[k].path)
       /\ ogLog[k].page = "ok"

\* the manifest the run loaded has an entry for key k with this source URL, and the
\* image file that entry names was on disk when the run started
ManifestHit(k, path, src) ==
  /\ k \in DOMAIN old.manifestFile.items
  /\ old.manifestFile.items[k].src = src
  /\ \E f \in old.ogFiles : f.path = path /\ f.ext = old.manifestFile.items[k].ext

\* C13: cache hit.  A record handled by the page loop whose key has a manifest
\* entry with the record's current image_url as source, and whose local file named
\* by that entry exists, is reused: no request is made for it in this run.
C13_CacheHitNoNetwork ==
  \A i \in 1..Len(uniq) :
    (keyOf(uniq[i]) \in DOMAIN ogLog
       /\ ManifestHit(keyOf(uniq[i]), PageOf(uniq[i], PlaceholderImg).path,
                      desiredSrcOf(uniq[i])))
      => ogLog[keyOf(uniq[i])].calls = 0 /\ ogLog[keyOf(uniq[i])].how = "reuse"

\* the entry of key k in manifest m2 is new or differs from its entry in m1
EntryChanged(m1, m2, k) == k \notin DOMAIN m1 \/ m2[k] # m1[k]

\* C14: a manifest entry changes only through a successful download of its key in
\* this run.  In memory, an iteration of the page loop keeps every entry and changes
\* only the entry of the record it handled, and only when its download succeeded;
\* on disk, no step removes an entry from og-manifest.json, and an entry it changes
\* or adds belongs to a key whose download succeeded in this run.
C14_ManifestChangesOnlyOnSuccess ==
  /\ [][(pc = "gen_loop" /\ pc' # "idle") =>
          /\ DOMAIN ogManifest \subseteq DOMAIN ogManifest'
          /\ \A k \in DOMAIN ogManifest' :
               EntryChanged(ogManifest, ogManifest', k) =>
                 k = keyOf(uniq[cursor]) /\ ogLog'[k].how = "ok"]_vars
  /\ [][/\ DOMAIN manifestFile.items \subseteq DOMAIN manifestFile'.items
        /\ \A k \in DOMAIN manifestFile'.items :
             EntryChanged(manifestFile.items, manifestFile'.items, k) =>
               k \in DOMAIN ogLog /\ ogLog[k].how = "ok"]_vars

\* a second run ended normally after both attempts of a download failed for a
\* record whose image_url had changed: the cached file was kept and the entry on
\* disk still is the one of the first run, with the former source URL
C14_Witness ==
  /\ pc = "idle"
  /\ exit = "success"
  /\ run = 2
  /\ \E k \in DOMAIN ogLog :
       /\ ogLog[k].how = "keep-old"
       /\ ogLog[k].calls = MaxAttempts
       /\ k \in DOMAIN manifestFile.items
       /\ manifestFile.items[k].at = 1
       /\ \E i \in 1..Len(archiveFile.items) :
            /\ keyOf(archiveFile.items[i]) = k
            /\ desiredSrcOf(archiveFile.items[i]) # manifestFile.items[k].src

PathOf(p) == PageOf(p, PlaceholderImg).path

\* C15: failure isolation.  Whatever the responses to the downloads, (1) every
\* record the page loop has passed has a staged page, all of uniq once the loop is
\* over; (2) an iteration whose page write returned goes on to the next record,
\* whatever its download did; (3) an iteration touches no image file of another
\* record; (4) an image a record was resolved to is a file of that record.
C15_FailureIsolation ==
  /\ [](pc \in {"gen_loop", "swap_rm"} =>
          {q.path : q \in tmpDir.pages} = {PathOf(uniq[i]) : i \in 1..(cursor - 1)})
  /\ [](pc = "swap_rm" => cursor = Len(uniq) + 1)
  /\ [][(pc = "gen_loop" /\ keyOf(uniq[cursor]) \in DOMAIN ogLog'
           /\ ogLog'[keyOf(uniq[cursor])].page = "ok")
          => pc' \in {"gen_loop", "swap_rm"} /\ cursor' = cursor + 1]_vars
  /\ [][pc = "gen_loop" =>
          \A f \in (ogFiles' \ ogFiles) \cup (ogFiles \ ogFiles') :
            f.path = PathOf(uniq[cursor])]_vars
  /\ [](\A k \in DOMAIN ogLog :
          ogLog[k].img # PlaceholderImg =>
            \E f \in ogFiles : f.path = ogLog[k].path /\ f.ext = ogLog[k].img)

\* two records went through the loop: both attempts failed for the first, which has
\* no cached file, and the download of the second succeeded
C15_Witness ==
  /\ pc = "swap_rm"
  /\ Len(uniq) = 2
  /\ ogLog[keyOf(uniq[1])].calls = MaxAttempts
  /\ ogLog[keyOf(uniq[1])].how = "fail"
  /\ ogLog[keyOf(uniq[2])].how = "ok"
  /\ Cardinality(tmpDir.pages) = 2

\* the page paths whose writeFileSync threw in this run
FailedPagePaths == {ogLog[k].path : k \in {j \in DOMAIN ogLog : ogLog[j].page = "throw"}}

\* C16: a failed page write skips that page only.  When a run in which the write of
\* a page threw has ended (not cancelled, swap not failed), the published tree holds
\* the page of every other persisted record.
C16_PageFailureSkipsOnePage ==
  (pc = "idle" /\ exit = "success" /\ swapFailed = "no" /\ FailedPagePaths # {}) =>
    \A path \in CatalogPaths \ FailedPagePaths :
      pDir.exists /\ path \in {q.path : q \in pDir.pages}

\* a record without its timestamp fields, and a list of such records
WithoutTimes(item) == [item EXCEPT !._ts = 0, !._updated = 0]
ListWithoutTimes(list) == [i \in 1..Len(list) |-> WithoutTimes(list[i])]

SameUpToTimes(r, products, archive) ==
  /\ ListWithoutTimes(r.nextProducts) = ListWithoutTimes(products)
  /\ ListWithoutTimes(r.nextArchive) = ListWithoutTimes(archive)

\* the reconciliation of a later run that reads products and archive back from disk
ReconcileAgain(rows, products, archive, nowTs) ==
  Reconcile(rows, safeReadJson(JsonFile(products), <<>>),
            safeReadJson(JsonFile(archive), <<>>), nowTs)

\* C17: idempotence.  Whenever a run has reconciled a feed, reconciling the same
\* feed again at a later time over the products and archive this run persists gives
\* the same active collection and the same archive: same records, same order, same
\* fields except _ts and _updated.
C17_Idempotent ==
  pc = "write_products" =>
    SameUpToTimes(ReconcileAgain(feed.rows, nextProducts, nextArchive, run + 1),
                  nextProducts, nextArchive)

\* a second run has reconciled a feed with an Active row and a hidden row, over a
\* prior catalog, and its archive keeps an entry the feed no longer has
C17_Witness ==
  /\ pc = "write_products"
  /\ run = 2
  /\ old.productsFile.items # <<>>
  /\ nextProducts # <<>>
  /\ \E i, j \in 1..Len(nextArchive) :
       /\ nextArchive[i]._hidden_reason \in {InactiveReason, NonAmazonReason}
       /\ nextArchive[i]._updated = 2
       /\ nextArchive[j]._updated = 1

\* the _ts of no record of list `after` is later than the _ts the same key has in
\* list `before`
FirstSeenKept(before, after) ==
  \A i \in 1..Len(before), j \in 1..Len(after) :
    keyOf(before[i]) = keyOf(after[j]) => after[j]._ts <= before[i]._ts

\* C20: first_seen_at (_ts) never moves later.  At every point of a run, the _ts of
\* every record of archive.json and of products.json is not later than the _ts that
\* was persisted for the same key, in either document, when the run started.
C20_FirstSeenNeverLater ==
  /\ FirstSeenKept(old.archiveFile.items, archiveFile.items)
  /\ FirstSeenKept(old.productsFile.items, productsFile.items)
  /\ FirstSeenKept(old.archiveFile.items, productsFile.items)

\* the records the tool keeps, as read (with their source order _idx)
KeptRecord(p) == HasMarketAndAsin(p) /\ isAllowedAsin(upper(p.asin))
KeptInput == SelectSeq(toolIn.active \o toolIn.archive, KeptRecord)

\* how many records of the pair of list[i] come before it in (market, asin,
\* source order) order, records of equal source order taken as they were read
EarlierOfPair(list, i) ==
  Cardinality({j \in 1..Len(list) :
                 /\ keyOf(list[j]) = keyOf(list[i])
                 /\ \/ list[j]._idx < list[i]._idx
                    \/ list[j]._idx = list[i]._idx /\ j < i})

\* (record, key) as the pages of the tool have them
AssignedKeys ==
  {<<[toolOut.all[i] EXCEPT !.__asinKey = Undefined], toolOut.all[i].__asinKey>> :
     i \in 1..Len(toolOut.all)}

\* (record, key) by position in (market, asin, source order) order
KeysBySourceOrder ==
  {<<toolRecord(KeptInput[i]),
     asinKeyOf(upper(KeptInput[i].asin), EarlierOfPair(KeptInput, i))>> :
     i \in 1..Len(KeptInput)}

\* C18: key assignment.  After a run of the tool over the union of active and
\* archive, the first record of each (market, asin) pair in (market, asin, source
\* order) order has the key asin and the N-th later record of the pair has asin_N.
C18_KeysBySourceOrder ==
  toolOut.ran => AssignedKeys = KeysBySourceOrder

\* C19: the key assignor is pure.  After a call on a non-empty list, the list and
\* its records are as they were passed in, and the call returned the keys.
C19_AssignorIsPure ==
  (toolOut.ran /\ toolOut.arg # <<>>) =>
    toolOut.all = toolOut.arg /\ toolOut.returned # Undefined

\* the data rows of the body in memory, and those of class Active with key k
DataRows == dataRowsOf(feed.rows)
ActiveRowsOf(k) ==
  {i \in 1..Len(DataRows) :
     /\ RowClass(mapRow(DataRows[i])) = "Active"
     /\ keyOfMA(DataRows[i].market, DataRows[i].asin) = k}

\* what the comparator looks at in a row: a valid absolute link, a non-empty
\* image_url, the title length, then the keyword, store and remark lengths
Flag(b) == IF b THEN 1 ELSE 0
RankOfRow(cells) ==
  <<Flag(normalizeUrl(cells.link) # <<>>), Flag(norm(cells.image_url) # <<>>),
    Len(norm(cells.title)), Len(norm(cells.keyword)), Len(norm(cells.store)),
    Len(norm(cells.remark))>>

\* rank a is below rank b on the first n fields, in priority order
RankBelow(a, b, n) ==
  \E i \in 1..n : a[i] < b[i] /\ \A j \in 1..(i - 1) : a[j] = b[j]

\* C21: dedup comparator.  After the row loop, the record of every active key is
\* built from one of the Active rows of that key; no Active row of the key ranks
\* above it by (valid link, non-empty image_url, title length) in this priority;
\* and no earlier Active row of the key is equal to it on every field the
\* comparator compares.
C21_DedupSurvivor ==
  pc = "write_products" =>
    \A n \in 1..Len(nextProducts) :
      LET w == nextProducts[n]._idx + 1
          A == ActiveRowsOf(keyOf(nextProducts[n]))
      IN  /\ w \in A
          /\ nextProducts[n].title = norm(DataRows[w].title)
          /\ nextProducts[n].keyword = norm(DataRows[w].keyword)
          /\ nextProducts[n].link = normalizeUrl(DataRows[w].link)
          /\ nextProducts[n].image_url = norm(DataRows[w].image_url)
          /\ \A j \in A :
               /\ ~RankBelow(RankOfRow(DataRows[w]), RankOfRow(DataRows[j]), 3)
               /\ RankOfRow(DataRows[j]) = RankOfRow(DataRows[w]) => w <= j

\* three Active rows of one key: the second outranks the first on the title, the
\* third equals the second on every compared field, and the second survived
C21_Witness ==
  /\ pc = "write_products"
  /\ Len(DataRows) = 3
  /\ ActiveRowsOf(keyOfMA(DataRows[1].market, DataRows[1].asin)) = {1, 2, 3}
  /\ RankBelow(RankOfRow(DataRows[1]), RankOfRow(DataRows[2]), 3)
  /\ RankOfRow(DataRows[3]) = RankOfRow(DataRows[2])
  /\ Len(nextProducts) = 1
  /\ nextProducts[1]._idx = 1

\* the hidden reason of a class of rows (the code spells the first
\* non_amazon_numeric_asin)
ReasonOfClass(cls) ==
  IF cls = "NonAmazon" THEN NonAmazonReason
  ELSE IF cls = "Inactive" THEN InactiveReason
  ELSE NoReason

\* C22: after reconciliation, the key of every feed row classified NonAmazon or
\* Inactive is in the next archive, and its entry is tagged with the hidden reason
\* of the row's class.
C22_HiddenRowsTagged ==
  pc = "write_products" =>
    \A i \in 1..Len(DataRows) :
      RowClass(mapRow(DataRows[i])) \in {"NonAmazon", "Inactive"} =>
        \E j \in 1..Len(nextArchive) :
          /\ keyOf(nextArchive[j]) = keyOfMA(DataRows[i].market, DataRows[i].asin)
          /\ nextArchive[j]._hidden_reason = ReasonOfClass(RowClass(mapRow(DataRows[i])))

\* what the claim says of a row that has a market and an asin
ClaimedActive(cells) ==
  cells.asin \notin NumericAsinCells /\ cells.status \in PublishedCells
ClaimedInactive(cells) ==
  cells.asin \notin NumericAsinCells /\ cells.status \notin PublishedCells
RowKey(cells) == keyOfMA(cells.market, cells.asin)

\* C23: classification.  After reconciliation, a key is in the next active
\* collection exactly when the feed has a row of that key whose asin is not all
\* digits and whose status, trimmed and in lower case, is empty or one of 1, true,
\* yes, on, active, enabled, publish, published, online; a row with a letter in its
\* asin and any other status is Inactive: its key is in the next archive, tagged
\* inactive_status and out of the active collection unless another row of the key
\* is Active.
C23_Classification ==
  pc = "write_products" =>
    /\ \A i \in 1..Len(DataRows) :
         /\ ClaimedActive(DataRows[i]) <=> RowClass(mapRow(DataRows[i])) = "Active"
         /\ ClaimedInactive(DataRows[i]) <=> RowClass(mapRow(DataRows[i])) = "Inactive"
         /\ ClaimedActive(DataRows[i]) => RowKey(DataRows[i]) \in KeysOf(nextProducts)
         /\ ClaimedInactive(DataRows[i]) => RowKey(DataRows[i]) \in KeysOf(nextArchive)
         /\ (ClaimedInactive(DataRows[i])
               /\ \A j \in 1..Len(DataRows) :
                    RowKey(DataRows[j]) = RowKey(DataRows[i]) => ~ClaimedActive(DataRows[j]))
              => \E j \in 1..Len(nextArchive) :
                   /\ keyOf(nextArchive[j]) = RowKey(DataRows[i])
                   /\ nextArchive[j]._hidden_reason = InactiveReason
    /\ \A k \in KeysOf(nextProducts) :
         \E i \in 1..Len(DataRows) : RowKey(DataRows[i]) = k /\ ClaimedActive(DataRows[i])

\* a row whose status is a published word in upper case between blanks was
\* reconciled into the active collection
C23_Witness ==
  /\ pc = "write_products"
  /\ Len(DataRows) = 1
  /\ DataRows[1].status = <<" ", "O", "N", "L", "I", "N", "E", " ", " ">>
  /\ Len(nextProducts) = 1

\* the keys of the data rows of a class
KeysOfClass(classes) ==
  {RowKey(DataRows[i]) : i \in {j \in 1..Len(DataRows) : RowClass(mapRow(DataRows[j])) \in classes}}

\* every record of the page loop has had its image resolved in this run
AllImagesResolved == \A i \in 1..Len(uniq) : keyOf(uniq[i]) \in DOMAIN ogLog

\* C24: ordering of persistence.  A step that changes products.json is the write
\* of the complete next active collection: every feed row is classified (the keys
\* written are those of the Active rows) and the next archive already holds the
\* keys of all rows and of the removal step.  A step that changes archive.json
\* writes that archive after products.json.  Nothing changes the computed archive
\* afterwards.  A step that changes the manifest is the last step of the run and
\* comes when the image of every record of the run has been resolved.
C24_PersistAfterCompute ==
  /\ [][productsFile' # productsFile =>
          /\ pc = "write_products"
          /\ productsFile'.items = nextProducts
          /\ KeysOf(nextProducts) = KeysOfClass({"Active"})
          /\ KeysOfClass({"Active", "Inactive", "NonAmazon"}) \subseteq KeysOf(nextArchive)
          /\ KeysOf(old.productsFile.items) \subseteq KeysOf(nextArchive)
          /\ KeysOf(old.archiveFile.items) \subseteq KeysOf(nextArchive)]_vars
  /\ [][archiveFile' # archiveFile =>
          /\ pc = "write_archive"
          /\ archiveFile'.items = nextArchive
          /\ productsFile.items = nextProducts
          /\ KeysOf(nextProducts) \subseteq KeysOf(nextArchive)
          /\ KeysOf(old.productsFile.items) \subseteq KeysOf(nextArchive)
          /\ KeysOf(old.archiveFile.items) \subseteq KeysOf(nextArchive)]_vars
  /\ [][(nextArchive' # nextArchive \/ nextProducts' # nextProducts) =>
          pc = "reconcile" \/ pc' = "idle"]_vars
  /\ [][manifestFile' # manifestFile =>
          /\ pc = "write_manifest"
          /\ pc' = "idle"
          /\ manifestFile'.items = ogManifest
          /\ AllImagesResolved]_vars
  /\ [](pc = "write_manifest" => AllImagesResolved)

\* a second run has ended after writing the manifest: two records went through the
\* page loop, one of them a key the feed of this run no longer has
C24_Witness ==
  /\ pc = "idle"
  /\ exit = "success"
  /\ run = 2
  /\ manifestFile.exists
  /\ ~old.manifestFile.exists
  /\ Cardinality(DOMAIN ogLog) = 2
  /\ \E i \in 1..Len(archiveFile.items) :
       archiveFile.items[i]._hidden_reason = RemovedReason

\* what the claim accepts: a successful response with a jpeg or png content type
\* and a body of at least 4096 bytes
Accepted(resp) ==
  /\ ~resp.throws
  /\ resp.ok
  /\ resp.ct \in {"image/jpeg", "image/png"}
  /\ resp.bytes >= 4096

\* C25: the image download.  A call makes at most 2 requests; it makes the second
\* only if the first response was not accepted, and none after an accepted one; it
\* returns an image exactly when the response to its last request is successful,
\* has a jpeg or png content type and is at least 4096 bytes long; when both
\* responses are refused, or the URL is no http(s) URL, it returns nothing, no
\* image file is written and no manifest entry changes; a request that throws is
\* an attempt like the others, and the call returns.
C25_DownloadAttempts ==
  callOut.fn = "resolveImage" =>
    /\ callOut.returned.calls \in 0..2
    /\ callOut.res.calls \in 0..2
    /\ ~callOut.called => callOut.res.calls = 0
    /\ callOut.called => callOut.res.calls = callOut.returned.calls
    /\ callOut.returned.calls = 2 => ~Accepted(callIn.resps[1])
    /\ callOut.returned.calls = 1 => Accepted(callIn.resps[1])
    /\ callOut.returned.calls = 0 => ~isValidHttpUrl(safeHttps(callIn.p.image_url))
    /\ callOut.returned.ext # "" <=>
         /\ callOut.returned.calls > 0
         /\ Accepted(callIn.resps[callOut.returned.calls])
    /\ callOut.returned.ext # "" =>
         /\ callOut.returned.bytes = callIn.resps[callOut.returned.calls].bytes
         /\ callOut.returned.ext \in {"jpg", "png"}
    /\ (callOut.called /\ callOut.returned.ext = "") =>
         /\ callOut.res.files = callIn.files
         /\ callOut.res.manifest = callIn.manifest
         /\ callOut.res.how \in {"keep-old", "fail"}
    /\ (callOut.called /\ callOut.returned.ext # "") =>
         /\ callOut.res.how = "ok"
         /\ \E f \in callOut.res.files : f.ext = callOut.returned.ext

\* the first request threw, the second was answered by a body one byte short: two
\* requests were made, nothing was returned, and the cached file and the manifest
\* entry of the record are as before
C25_Witness ==
  /\ callOut.fn = "resolveImage"
  /\ callOut.called
  /\ callIn.resps[1].throws
  /\ callIn.resps[2].ok /\ callIn.resps[2].bytes = 4095
  /\ callOut.returned.calls = 2
  /\ callOut.returned.ext = ""
  /\ callIn.files # {}
  /\ DOMAIN callIn.manifest # {}
  /\ callOut.res.files = callIn.files
  /\ callOut.res.manifest = callIn.manifest

\* the records of a list
RecordsOf(list) == {list[i] : i \in 1..Len(list)}

\* C26: after the swap of a run has succeeded, the published tree exists, the
\* staging directory is gone, and the tree holds exactly the documents this run
\* made: one per key of the next active collection united with the next archive
\* (a key of both collections has one page), at the path of its market and key,
\* and nothing else.
C26_PublishedTreeExact ==
  (pc = "write_manifest" /\ swapFailed = "no") =>
    /\ pDir.exists
    /\ ~tmpDir.exists
    /\ pDir.pages = {PageOf(uniq[i], ogLog[keyOf(uniq[i])].img) : i \in 1..Len(uniq)}
    /\ {q.path : q \in pDir.pages}
         = {PathOf(p) : p \in RecordsOf(nextProducts) \cup RecordsOf(nextArchive)}
    /\ Cardinality(pDir.pages)
         = Cardinality(KeysOf(nextProducts) \cup KeysOf(nextArchive))

\* the swap of a second run succeeded where the first run had left a staging
\* directory behind: a key is in both collections, another in the archive alone,
\* and a page of the stale staging directory is not in the published tree
C26_Witness ==
  /\ pc = "write_manifest"
  /\ swapFailed = "no"
  /\ run = 2
  /\ old.tmpDir.pages # {}
  /\ nextProducts # <<>>
  /\ KeysOf(nextArchive) # KeysOf(nextProducts)
  /\ \E q \in old.tmpDir.pages : q \notin pDir.pages

\* an absolute http(s) URL: it starts with the scheme, in either case
AbsoluteUrl(s) == Len(s) > 0 /\ s[1] \in {"http://", "https://", "HTTP://", "HTTPS://"}
UrlOrEmpty(s) == s = <<>> \/ AbsoluteUrl(s)

\* C27: every record of products.json and of archive.json, and every record about
\* to be written to them, has a link that is empty or an absolute http(s) URL and
\* an image_url that is empty or an absolute http(s) URL.
C27_UrlFieldsWellFormed ==
  \A p \in RecordsOf(productsFile.items) \cup RecordsOf(archiveFile.items)
             \cup RecordsOf(nextProducts) \cup RecordsOf(nextArchive) :
    UrlOrEmpty(p.link) /\ UrlOrEmpty(p.image_url)

\* C28: the active collection is mirrored in the archive.  From the end of
\* reconciliation to the end of the run, every key of the next active collection
\* is a key of the next archive; and when a run has ended after writing both
\* documents, every key of products.json is a key of archive.json.
C28_ActiveMirroredInArchive ==
  /\ pc \in LivePcs => KeysOf(nextProducts) \subseteq KeysOf(nextArchive)
  /\ (pc = "idle" /\ exit = "success") =>
       KeysOf(productsFile.items) \subseteq KeysOf(archiveFile.items)

\* a second run has reconciled two active keys over an archive that holds a
\* third key
C28_Witness ==
  /\ pc = "write_products"
  /\ run = 2
  /\ Cardinality(KeysOf(nextProducts)) = 2
  /\ Cardinality(KeysOf(nextArchive)) = 3

\* the cells of a table: empty, ordinary, blank, and cells holding the characters
\* that have to be quoted
TableCells ==
  { <<>>, <<"a">>, <<Blank>>, <<Quote, Comma>>, <<LF>>, <<CR>>, <<"a", Quote, Quote>> }

RECURSIVE SortedSeqOf(_)
SortedSeqOf(numbers) ==
  IF numbers = {} THEN <<>>
  ELSE LET least == CHOOSE x \in numbers : \A y \in numbers : x <= y
       IN  <<least>> \o SortedSeqOf(numbers \ {least})

\* the table of the cells of flat, a row ending after each position of breaks
RowsFrom(flat, starts) ==
  [k \in 1..Len(starts) |->
     SubSeq(flat, starts[k], IF k < Len(starts) THEN starts[k + 1] - 1 ELSE Len(flat))]
TableOf(flat, breaks) == RowsFrom(flat, SortedSeqOf({1} \cup {b + 1 : b \in breaks}))

\* the tables of up to MaxCells cells whose rows each have a non-blank cell
Tables ==
  { t \in UNION { {TableOf(flat, breaks) : flat \in [1..n -> TableCells],
                                           breaks \in SUBSET (1..(n - 1))} :
                  n \in 1..MaxCells } :
      \A r \in 1..Len(t) : someCellNonBlank(t[r]) }

\* a field as the convention writes it: wrapped in double quotes, with embedded
\* quotes doubled, when it holds a comma, a double quote or a line break
RECURSIVE DoubleQuotes(_)
DoubleQuotes(cell) ==
  IF cell = <<>> THEN <<>>
  ELSE IF Head(cell) = Quote THEN <<Quote, Quote>> \o DoubleQuotes(Tail(cell))
  ELSE <<Head(cell)>> \o DoubleQuotes(Tail(cell))

NeedsQuotes(cell) == \E i \in 1..Len(cell) : cell[i] \in {Comma, Quote, CR, LF}

WriteField(cell) ==
  IF NeedsQuotes(cell) THEN <<Quote>> \o DoubleQuotes(cell) \o <<Quote>> ELSE cell

RECURSIVE WriteRow(_)
WriteRow(r) ==
  IF Len(r) = 1 THEN WriteField(r[1])
  ELSE WriteField(Head(r)) \o <<Comma>> \o WriteRow(Tail(r))

RowEndings == {<<LF>>, <<CR, LF>>}

RECURSIVE WriteTable(_, _)
WriteTable(t, eol) ==
  IF t = <<>> THEN <<>>
  ELSE WriteRow(Head(t)) \o eol \o WriteTable(Tail(t), eol)

\* parseCSV called on its own: on every text of up to MaxTextLen characters, and
\* on the text of every table with either row ending
ParseInputs ==
  { [fn |-> "parseCSV", text |-> text, table |-> <<>>, eol |-> <<>>] : text \in Texts }
    \cup { [fn |-> "parseCSV", text |-> WriteTable(t, eol), table |-> t, eol |-> eol] :
             t \in Tables, eol \in RowEndings }

\* const rows = parseCSV(csvText), and the rows that the filter of dataRows keeps
ParseCall ==
  /\ callIn.fn = "parseCSV"
  /\ callOut = NoCall
  /\ callOut' = [fn |-> "parseCSV", rows |-> parseCSV(callIn.text).rows,
                 steps |-> parseCSV(callIn.text).steps,
                 kept |-> SelectSeq(parseCSV(callIn.text).rows, someCellNonBlank)]
  /\ UNCHANGED <<disk, work, pc, exit, run, swapFailed, fetched, feedKind, old, ogLog,
                 toolIn, toolOut, callIn>>

SpecParse == InitCall(ParseInputs) /\ [][ParseCall]_vars

\* the characters of all cells of the rows, in order
RECURSIVE JoinCells(_)
JoinCells(r) == IF r = <<>> THEN <<>> ELSE Head(r) \o JoinCells(Tail(r))
RECURSIVE JoinRows(_)
JoinRows(rows) == IF rows = <<>> THEN <<>> ELSE JoinCells(Head(rows)) \o JoinRows(Tail(rows))

IsOrdinary(c) == c \notin {Comma, Quote, CR, LF}
CountOf(c, text) == Cardinality({i \in 1..Len(text) : text[i] = c})

\* C29: the parser terminates and returns rows for every text over commas, double
\* quotes, CR, LF and ordinary characters.  The loop makes at most one iteration
\* per character; the result is a sequence of rows of at least one cell each, with
\* at most one row more than the text has LF characters and no more cells than the
\* text has commas and rows; and the ordinary characters of the text are the
\* ordinary characters of the cells, in the same order.
C29_ParserTotal ==
  callOut.fn = "parseCSV" =>
    /\ callOut.steps <= Len(callIn.text)
    /\ Len(callOut.rows) <= CountOf(LF, callIn.text) + 1
    /\ \A r \in 1..Len(callOut.rows) : Len(callOut.rows[r]) >= 1
    /\ Len(JoinRows([r \in 1..Len(callOut.rows) |->
                       [c \in 1..Len(callOut.rows[r]) |-> <<"a">>]]))
         <= CountOf(Comma, callIn.text) + Len(callOut.rows)
    /\ SelectSeq(JoinRows(callOut.rows), IsOrdinary) = SelectSeq(callIn.text, IsOrdinary)

\* a text whose second row has fewer cells than the first and opens a quote that
\* is never closed was parsed into two rows
C29_Witness ==
  /\ callOut.fn = "parseCSV"
  /\ callIn.text = <<"a", Comma, LF, Quote, "a">>
  /\ callOut.rows = << <<<<"a">>, <<>>>>, <<<<"a">>>> >>

\* C30: parser round trip.  For every table whose rows each have a non-blank cell,
\* the text that writes its fields with comma delimiters, quoting and doubled
\* quotes, and ends each row by LF or by CRLF, is parsed back into the same rows
\* and cells in the same order; the filter of blank rows keeps them all; and the
\* text with the other row ending gives the same result.
C30_RoundTrip ==
  (callOut.fn = "parseCSV" /\ callIn.table # <<>>) =>
    /\ callOut.rows = callIn.table
    /\ callOut.kept = callIn.table
    /\ \A eol \in RowEndings : parseCSV(WriteTable(callIn.table, eol)).rows = callOut.rows

\* a table of two rows of differing cell counts, with a cell holding a quote and a
\* comma and a cell holding a CR, written with CRLF row endings, came back
C30_Witness ==
  /\ callOut.fn = "parseCSV"
  /\ callIn.eol = <<CR, LF>>
  /\ callIn.table = << <<<<Quote, Comma>>, <<CR>>>>, <<<<"a">>>> >>
  /\ callOut.rows = callIn.table

(* ---- C31 ---- *)
\* the archive mapping when the row loop is over and the removal step starts
WorkingArchive ==
  ProcessRows([activeMap  |-> EmptyMap,
               archiveMap |-> MapFromList(safeReadJson(archiveFile, <<>>)),
               dupActive  |-> 0],
              DataRows, 0, MapFromList(safeReadJson(productsFile, <<>>)), run).archiveMap

LeftActive ==
  {k \in DOMAIN MapFromList(safeReadJson(productsFile, <<>>)) :
     k \notin KeysOf(nextProducts)}

ArchiveRecordOf(k) == {nextArchive[i] : i \in {j \in 1..Len(nextArchive) : keyOf(nextArchive[j]) = k}}

\* C31: when the removal step is over, every key the working archive held keeps
\* the record the working archive held for it, also when the key left the active
\* collection; the prior active record (tagged removed_from_active unless it
\* carries a tag of its own) is in the archive only for the keys that left the
\* active collection and that the working archive did not hold; no other key is
\* in the archive.
C31_RemovalKeepsExisting ==
  pc = "write_products" =>
    /\ KeysOf(nextArchive) = (DOMAIN WorkingArchive) \cup LeftActive
    /\ \A k \in DOMAIN WorkingArchive : ArchiveRecordOf(k) = {WorkingArchive[k]}
    /\ \A k \in LeftActive \ DOMAIN WorkingArchive :
         ArchiveRecordOf(k) =
           {[MapFromList(productsFile.items)[k] EXCEPT !._hidden_reason =
               IF @ # NoReason THEN @ ELSE RemovedReason]}

\* run 1 wrote products.json with US|B1 and US|B2 and failed on archive.json;
\* the feed of run 2 holds US|B1 as an unpublished row and no row of US|B2: the
\* record of US|B1 is the one of the feed, the one of US|B2 is the prior record
C31_Witness ==
  /\ pc = "write_products"
  /\ run = 2
  /\ LeftActive = {keyOfMA(<<"U", "S">>, <<"B", "1">>), keyOfMA(<<"U", "S">>, <<"B", "2">>)}
  /\ keyOfMA(<<"U", "S">>, <<"B", "1">>) \in DOMAIN WorkingArchive
  /\ keyOfMA(<<"U", "S">>, <<"B", "2">>) \notin DOMAIN WorkingArchive
  /\ \E i \in 1..Len(nextArchive) :
       /\ keyOf(nextArchive[i]) = keyOfMA(<<"U", "S">>, <<"B", "2">>)
       /\ nextArchive[i]._hidden_reason = RemovedReason

(* ---- C32 ---- *)
\* the directory main writes the page of a record to
PageDirOf(p) == <<toLowerCase(upper(p.market)), p.__asinKey>>

\* C32: after a run of the page generator, two distinct records of the list it
\* annotated never have the same (market, asinKey) pair, and never the same page
\* directory.
C32_PageKeysDistinct ==
  toolOut.ran =>
    \A i, j \in 1..Len(toolOut.all) :
      i # j =>
        /\ <<toolOut.all[i].market, toolOut.all[i].__asinKey>> #
             <<toolOut.all[j].market, toolOut.all[j].__asinKey>>
        /\ PageDirOf(toolOut.all[i]) # PageDirOf(toolOut.all[j])

(* ---- C33 ---- *)
\* the image file the page of record p references after a cache hit
ReusedFiles(p) ==
  {f \in ogFiles : f.path = ogBase(upper(p.market), upper(p.asin))
                     /\ f.ext = ogLog[keyOf(p)].img}

\* C33: cache coherence.  Whenever the page loop of a run reuses the local image
\* file of a record (cache hit), the bytes of that file were downloaded from the
\* record's current https-coerced image_url.
C33_CacheCoherence ==
  \A i \in 1..Len(uniq) :
    (keyOf(uniq[i]) \in DOMAIN ogLog /\ ogLog[keyOf(uniq[i])].how = "reuse")
      => \A f \in ReusedFiles(uniq[i]) : f.src = desiredSrcOf(uniq[i])

(* ---- C34 ---- *)
\* the manifest the run loaded says that the run before it downloaded the image
\* of key k from src (the entry carries the clock of that run) and persisted it
DownloadedByPreviousRun(k, src) ==
  /\ k \in DOMAIN old.manifestFile.items
  /\ old.manifestFile.items[k].at = run - 1
  /\ old.manifestFile.items[k].src = src

\* C34: a record handled by the page loop whose image was downloaded by the
\* previous run from the same image_url, with the manifest persisted, is resolved
\* by cache hit: no request is made for it in this run.
C34_HitAfterDownload ==
  \A i \in 1..Len(uniq) :
    (keyOf(uniq[i]) \in DOMAIN ogLog
       /\ DownloadedByPreviousRun(keyOf(uniq[i]), desiredSrcOf(uniq[i])))
      => ogLog[keyOf(uniq[i])].calls = 0 /\ ogLog[keyOf(uniq[i])].how = "reuse"

(* ---- C35 ---- *)
\* C35: once the collections of a run are computed, the archive entry of every key
\* of the next active collection carries no hidden reason.
C35_ActiveKeysUntaggedInArchive ==
  pc \in {"write_products", "write_archive"} =>
    \A i \in 1..Len(nextProducts) : \A j \in 1..Len(nextArchive) :
      keyOf(nextArchive[j]) = keyOf(nextProducts[i])
        => nextArchive[j]._hidden_reason = NoReason

(* ---- C36 ---- *)
\* the manifest the run loaded has an entry for the key of record p whose source
\* URL is not the record's current one: the image_url changed since the download
\* the entry records, and no download of the new URL has been recorded yet
SourceChanged(p) ==
  /\ keyOf(p) \in DOMAIN old.manifestFile.items
  /\ desiredSrcOf(p) # <<>>
  /\ old.manifestFile.items[keyOf(p)].src # desiredSrcOf(p)

DownloadFailed(k) == ogLog[k].how \in {"keep-old", "fail"} /\ ogLog[k].calls > 0

\* C36: for a record handled by the page loop whose image_url differs from the
\* source URL of its manifest entry: the download is attempted (a run after a
\* failed download finds the entry as described under the next point, so it
\* attempts again); when the download fails, the manifest in memory and the
\* manifest on disk keep the entry with the old source URL, to the end of the run;
\* when it succeeds, the source URL of the entry is the record's current
\* https-coerced image_url.
C36_RetryUntilDownloaded ==
  /\ \A i \in 1..Len(uniq) :
       (keyOf(uniq[i]) \in DOMAIN ogLog /\ SourceChanged(uniq[i])) =>
         /\ ogLog[keyOf(uniq[i])].how # "reuse"
         /\ isValidHttpUrl(desiredSrcOf(uniq[i])) => ogLog[keyOf(uniq[i])].calls >= 1
         /\ (ogLog[keyOf(uniq[i])].page = "ok" /\ DownloadFailed(keyOf(uniq[i]))) =>
              /\ keyOf(uniq[i]) \in DOMAIN ogManifest
              /\ ogManifest[keyOf(uniq[i])] = old.manifestFile.items[keyOf(uniq[i])]
         /\ (ogLog[keyOf(uniq[i])].page = "ok" /\ ogLog[keyOf(uniq[i])].how = "ok") =>
              /\ keyOf(uniq[i]) \in DOMAIN ogManifest
              /\ ogManifest[keyOf(uniq[i])].src = desiredSrcOf(uniq[i])
  /\ \A k \in DOMAIN ogLog :
       (k \in DOMAIN old.manifestFile.items /\ DownloadFailed(k)) =>
         /\ k \in DOMAIN manifestFile.items
         /\ manifestFile.items[k] = old.manifestFile.items[k]

\* run 1 downloaded the image of http://i; the manifest still has that entry when
\* run 3 starts, products.json of run 2 has the record with https://j; run 3 has
\* https://j as well and downloads it at the second attempt
C36_Witness ==
  /\ run = 3
  /\ Len(uniq) = 1
  /\ keyOf(uniq[1]) \in DOMAIN ogLog
  /\ SourceChanged(uniq[1])
  /\ old.manifestFile.items[keyOf(uniq[1])].at = 1
  /\ old.manifestFile.items[keyOf(uniq[1])].src = <<"https://", "i">>
  /\ Len(old.productsFile.items) = 1
  /\ old.productsFile.items[1].image_url = <<"https://", "j">>
  /\ uniq[1].image_url = <<"https://", "j">>
  /\ old.ogFiles = {[path |-> ogBase(<<"U", "S">>, <<"B", "1">>), ext |-> "jpg",
                     src |-> <<"https://", "i">>]}
  /\ ogLog[keyOf(uniq[1])].how = "ok"
  /\ ogLog[keyOf(uniq[1])].calls = 2
  /\ ogManifest[keyOf(uniq[1])].src = <<"https://", "j">>

(* ---- C37 ---- *)
\* data rows of the feed of the scheduled job: published, unpublished and removed
\* products, an all-digits asin and a row without market
PipelineRows ==
  { Row(<<"U", "S">>, <<"B", "1">>, <<>>, <<"a">>, <<>>, <<"a", "c", "t", "i", "v", "e">>),
    Row(<<"u", "s", " ">>, <<"B", "1">>, <<>>, <<"b">>, <<>>, <<"o", "f", "f">>),
    Row(<<"U", "S">>, <<"B", "2">>, <<>>, <<"c">>, <<>>, <<" ", "O", "N", "L", "I", "N", "E">>),
    Row(<<"U", "S">>, <<"B", "2">>, <<>>, <<>>, <<>>, <<>>),
    Row(<<"U", "S">>, <<"1", "2">>, <<>>, <<>>, <<>>, <<"0">>),
    Row(<<>>, <<"B", "1">>, <<>>, <<>>, <<>>, <<"1">>) }

PipelineFeeds == UNION {[1..n -> PipelineRows] : n \in 0..MaxRows}

\* what an earlier run of the job left: nothing, or US B3 published
PipelineCatalogs ==
  { [products |-> NoDoc, archive |-> NoDoc],
    [products |-> ProductsDoc(<<syncItem(Row(<<"U", "S">>, <<"B", "3">>, <<>>, <<"d">>,
                                             <<>>, <<"1">>), 1)>>),
     archive |-> ArchiveDoc(EmptyMap)],
    [products |-> ProductsDoc(<<>>),
     archive |-> ArchiveDoc(archiveSet(EmptyMap, buildKey(<<"U", "S">>, <<"B", "3">>),
                                       syncItem(Row(<<"U", "S">>, <<"B", "3">>, <<>>,
                                                    <<"d">>, <<>>, <<"0">>), 1), 1))] }

PipelineInputs ==
  {[fn |-> "pipeline", rows |-> rows, products |-> c.products, archive |-> c.archive] :
     rows \in PipelineFeeds, c \in PipelineCatalogs}

\* one scheduled run of the job: node scripts/sync_from_csv.mjs, then
\* node tools/generate_product_pages.mjs
PipelineRun ==
  /\ callIn.fn = "pipeline"
  /\ callOut = NoCall
  /\ callOut' = pipeline(callIn.rows, callIn.products, callIn.archive, 2)
  /\ UNCHANGED <<disk, work, pc, exit, run, swapFailed, fetched, feedKind, old, ogLog,
                 toolIn, toolOut, callIn>>

SpecPipeline == InitCall(PipelineInputs) /\ [][PipelineRun]_vars

\* the records archive.json holds after the sync step
ArchivedItems == MapValues(callOut.archive.items.map)

\* C37: after a run of the job in which the sync step succeeded, every item of
\* archive.json whose asin is not all digits has a page among those the page
\* generator wrote: a page of its market whose key is made from its asin.
C37_ArchivedItemsHavePages ==
  (callOut.fn = "pipeline" /\ ~callOut.threw) =>
    \A it \in ArchivedItems :
      ~isAllDigitsAsin(it.asin) =>
        \E i \in 1..Len(callOut.tool.all) :
          /\ callOut.tool.all[i].market = upper(it.market)
          /\ callOut.tool.all[i].asin = upper(it.asin)
          /\ toolPageOf(callOut.tool.all[i]) \in callOut.tool.pages

(* ---- C38 ---- *)
\* what the feed server answers to a request: a body, an HTTP error status, or
\* no answer at all
FetchBodies ==
  BodiesOver({Row(<<"U", "S">>, <<"B", "1">>, <<>>, <<"a">>, <<>>, <<"1">>),
              Row(<<"U", "S">>, <<"B", "2">>, <<>>, <<"b">>, <<>>, <<"0">>)}, 1)

FetchAnswers ==
  {[kind |-> "ok", body |-> b] : b \in FetchBodies}
    \cup {[kind |-> k, body |-> NoBody] : k \in {"http_error", "network_error"}}

\* the answers to the first, second and third request of one run
SyncInputs ==
  {[fn |-> "sync_from_csv", answers |-> a, products |-> c.products,
    archive |-> c.archive] :
     a \in [1..MaxTries -> FetchAnswers], c \in PipelineCatalogs}

\* node scripts/sync_from_csv.mjs is started
SyncStart ==
  /\ callIn.fn = "sync_from_csv"
  /\ callOut = NoCall
  /\ callOut' = fetchTextStart(callIn.products, callIn.archive)
  /\ UNCHANGED <<disk, work, pc, exit, run, swapFailed, fetched, feedKind, old, ogLog,
                 toolIn, toolOut, callIn>>

\* a step of the script: at is the statement it is at
SyncStep(at, after) ==
  /\ callOut.fn = "sync_from_csv"
  /\ callOut.at \in at
  /\ callOut' \in after
  /\ UNCHANGED <<disk, work, pc, exit, run, swapFailed, fetched, feedKind, old, ogLog,
                 toolIn, toolOut, callIn>>

FetchTry == SyncStep({"try"}, {fetchTextTry(callOut, callIn.answers[callOut.t])})
FetchCatch == SyncStep({"catch"}, {fetchTextCatch(callOut)})
SyncValidate == SyncStep({"validate"}, {syncValidate(callOut, 2)})
SyncWrite ==
  SyncStep({"write_products", "write_archive"},
           {syncWrite(callOut, outcome) : outcome \in WriteOutcomes})

NextSync == SyncStart \/ FetchTry \/ FetchCatch \/ SyncValidate \/ SyncWrite

SpecSync == InitCall(SyncInputs) /\ [][NextSync]_vars

\* the attempts that were answered with a body, among the first n
OkAttempts(n) == {i \in 1..n : callIn.answers[i].kind = "ok"}

\* 800 ms times the number of the attempt, after each of the first n attempts
WaitsAfter(n) == [i \in 1..n |-> SleepUnit * i]

\* C38: the feed fetch of sync_from_csv.mjs.  It makes at most 3 attempts; it
\* returns the text of the first attempt that was answered with a body, without
\* another attempt; it has waited after each failed attempt but the third; after
\* 3 failures the error of the third attempt is raised and the run exits non-zero;
\* as long as fetchText has not returned, products.json and archive.json are as
\* the run found them.
C38_FetchRetries ==
  callOut.fn = "sync_from_csv" =>
    /\ callOut.attempts <= MaxTries
    /\ callOut.returned =>
         /\ OkAttempts(callOut.attempts) = {callOut.attempts}
         /\ callOut.text = callIn.answers[callOut.attempts].body
         /\ callOut.sleeps = WaitsAfter(callOut.attempts - 1)
    /\ (~callOut.returned /\ callOut.at = "exit1") =>
         /\ callOut.attempts = MaxTries
         /\ OkAttempts(MaxTries) = {}
         /\ callOut.err = callIn.answers[MaxTries].kind
         /\ callOut.sleeps = WaitsAfter(MaxTries - 1)
    /\ ~callOut.returned =>
         /\ callOut.products = callIn.products
         /\ callOut.archive = callIn.archive
         /\ Len(callOut.sleeps) <= callOut.attempts
    /\ (callOut.products # callIn.products \/ callOut.archive # callIn.archive) =>
         callOut.returned /\ ~callOut.text.empty

\* three failed attempts, the second an HTTP error and the third a network error:
\* the run has exited with the error of the third, after two waits
C38_Witness ==
  /\ callOut.fn = "sync_from_csv"
  /\ callOut.at = "exit1"
  /\ ~callOut.returned
  /\ callIn.answers[2].kind = "http_error"
  /\ callOut.err = "network_error"
  /\ callOut.attempts = 3
  /\ callOut.sleeps = <<800, 1600>>
  /\ callIn.products.exists

====
